---- MODULE Spec2Model ----
(***************************************************************************)
(* Model of the AI recommendation service (ai-recommendation-service):     *)
(*   app.py                       the request handlers and their cache use  *)
(*   services/ai_service.py       predictions, catalog, filter, scoring     *)
(*   services/market_data_service.py  the market snapshot and its sentiment *)
(*   services/cache_service.py    the best-effort key/TTL cache             *)
(*                                                                         *)
(* Units.  Python floats are kept as scaled integers:                      *)
(*   risk scores and predicted returns   hundredths  (round(x, 2))         *)
(*   product expected_return             tenths      (round(x, 1))         *)
(*   product scores                      tenths                            *)
(*   confidence_score                    thousandths                       *)
(*   money (min_investment, amounts)     thousands of VND                  *)
(* Six specifications share the operators below:                           *)
(*   Spec           the running service: handlers interleaved at awaits    *)
(*   SpecRank       generate_recommendations as a function of its inputs   *)
(*   SpecPredict    predict_risk_score / predict_expected_return           *)
(*   SpecPortfolio  analyze_portfolio / assess_risk                        *)
(*   SpecMarket     _calculate_market_sentiment                            *)
(*   SpecCache      one cached handler run against a redis that may fail   *)
(***************************************************************************)
EXTENDS Integers, Sequences, FiniteSets, TLC

VARIABLES
    pred,                \* SpecPredict: inputs and results of the two predictors
    rank,                \* SpecRank: inputs and result of generate_recommendations
    port,                \* SpecPortfolio: inputs and results of analyze_portfolio / assess_risk
    mkt,                 \* SpecMarket: index quotes and the sentiment computed from them
    hnd,                 \* SpecCache: one handler call, its redis outcomes and its response
    api_key,             \* AlphaVantageService.api_key is set (fetches really suspend)
    investment_products, \* AIRecommendationService.investment_products
    pc,                  \* per request slot: where its coroutine is suspended
    req,                 \* per request slot: the handler's locals
    resp,                \* per request slot: the response last sent
    cache,               \* the redis cache: key -> value or a miss
    builds,              \* history: _load_investment_products runs started
    nreq                 \* history: requests started

vars == <<pred, rank, port, mkt, hnd, api_key, investment_products, pc, req, resp, cache,
          builds, nreq>>

predVars == <<pred>>
rankVars == <<rank>>
portVars == <<port>>
mktVars  == <<mkt>>
hndVars  == <<hnd>>
svcVars  == <<api_key, investment_products, pc, req, resp, cache,
              builds, nreq>>

(***************************************************************************)
(* Bounds of the model.                                                    *)
(***************************************************************************)
NProcs      == 2   \* request slots running concurrently
MaxRequests == 2   \* requests started in one behaviour
MaxSeed     == 2   \* wall-clock seeds the catalog generator may draw

(***************************************************************************)
(* Enumerations (models/recommendation.py).                                *)
(***************************************************************************)
RiskLevel == {"LOW", "MEDIUM", "HIGH"}

AssetType == {"SAVINGS", "FUND", "STOCK", "BOND", "REAL_ESTATE", "GOLD"}

Max(a, b) == IF a >= b THEN a ELSE b

Min(a, b) == IF a <= b THEN a ELSE b

Abs(a) == IF a >= 0 THEN a ELSE -a

\* round(n / d) for d > 0: nearest integer, halves away from zero of the
\* non-negative operand (the inputs used never sit on a tie).
RoundDiv(n, d) == IF n >= 0 THEN (2 * n + d) \div (2 * d)
                  ELSE -((2 * (-n) + d) \div (2 * d))

(***************************************************************************)
(* Market snapshot (market_data_service.py).                               *)
(* A quote is [price, change, pct]: price and change in whole units, pct   *)
(* the number inside change_percent ("1.5%" is kept as whole percent).     *)
(***************************************************************************)
IndexSymbols == <<"^GSPC", "^DJI", "^IXIC", "^VIX">>

Quote(price, change) ==
    [price |-> price, change |-> change, pct |-> change, hasChange |-> TRUE]

\* An index entry whose "change" is missing or None.  get_stock_quote always
\* fills it in (37, 203-208); _calculate_market_sentiment provides for its
\* absence (182).
QuoteWithoutChange ==
    [price |-> 100, change |-> 0, pct |-> 0, hasChange |-> FALSE]

\* _calculate_market_sentiment (173-197): positive_count, the quotes that
\* carry a change > 0.
RECURSIVE CountPositive(_)
CountPositive(quotes) ==
    IF quotes = <<>> THEN 0
    ELSE (IF Head(quotes).hasChange /\ Head(quotes).change > 0 THEN 1 ELSE 0)
            + CountPositive(Tail(quotes))

\* (the thresholds taken strictly: > 0.7 and < 0.3)
CalculateMarketSentimentStrict(quotes) ==
    LET positive_count == CountPositive(quotes)
        total_count == Len(SelectSeq(quotes, LAMBDA q : q.hasChange))
    IN  IF total_count = 0 THEN "NEUTRAL"
        ELSE IF 10 * positive_count > 7 * total_count THEN "BULLISH"
        ELSE IF 10 * positive_count < 3 * total_count THEN "BEARISH"
        ELSE "NEUTRAL"

\* positive_ratio = positive_count / total_count against 0.7 and 0.3.
CalculateMarketSentiment(quotes) ==
    LET positive_count == CountPositive(quotes)
        total_count == Len(SelectSeq(quotes, LAMBDA q : q.hasChange))
    IN  IF quotes = <<>> \/ total_count = 0 THEN "NEUTRAL"
        ELSE IF 10 * positive_count >= 7 * total_count THEN "BULLISH"
        ELSE IF 10 * positive_count <= 3 * total_count THEN "BEARISH"
        ELSE "NEUTRAL"

\* get_market_overview, normal return: quotes for the four indices in the
\* order of IndexSymbols, the USD/VND rate, and the derived sentiment.
MarketOverview(changes, vixPrice, usdvnd) ==
    LET quotes == <<Quote(100, changes[1]), Quote(100, changes[2]),
                    Quote(100, changes[3]), Quote(vixPrice, changes[4])>>
    IN  [hasData |-> TRUE, quotes |-> quotes, hasVix |-> TRUE,
         usdvnd |-> usdvnd,
         market_sentiment |-> CalculateMarketSentiment(quotes)]

\* _get_mock_market_overview: three indices, no ^VIX, sentiment fixed.
MockMarketOverview(changes) ==
    [hasData |-> TRUE,
     quotes |-> <<Quote(100, changes[1]), Quote(100, changes[2]),
                  Quote(100, changes[3])>>,
     hasVix |-> FALSE, usdvnd |-> 24000, market_sentiment |-> "NEUTRAL"]

\* market_data=None, the default of predict_risk_score (/test-ml).
NoMarket == [hasData |-> FALSE, quotes |-> <<>>, hasVix |-> FALSE,
             usdvnd |-> 0, market_sentiment |-> "NEUTRAL"]

\* The snapshots the model draws from: every sentiment, with the volatility
\* index low (< 15), middling and high (> 30), and the forex proxy on each
\* side of its thresholds.
Snapshots ==
    { MarketOverview(<<2, 1, 1, 1>>, 12, 24000),      \* 4/4 up: BULLISH
      MarketOverview(<<2, 1, 1, -1>>, 35, 25000),     \* 3/4 up: BULLISH
      MarketOverview(<<1, 1, -1, -1>>, 35, 24000),    \* 2/4 up: NEUTRAL
      MarketOverview(<<1, -1, -1, 1>>, 12, 22000),    \* 2/4 up: NEUTRAL
      MarketOverview(<<-2, -1, -1, 1>>, 35, 24000),   \* 1/4 up: BEARISH
      MarketOverview(<<-2, -1, -1, -1>>, 20, 25000),  \* 0/4 up: BEARISH
      MockMarketOverview(<<1, 1, 1>>) }

\* get_market_overview when get_stock_quote and get_forex_rate had nothing
\* from Alpha Vantage (no API key, a non-200, a body without "Global
\* Quote"): every quote is _get_mock_stock_data's, with a random change in
\* [-10, 10] and a random price in [50, 200] (also for ^VIX); USD/VND is the
\* mock table's 24000.  The sentiment is computed from those changes.
MockSnapshots ==
    { MarketOverview(<<-3, -2, -1, -4>>, 120, 24000),
      MarketOverview(<<3, 2, 1, 4>>, 60, 24000),
      MarketOverview(<<3, -2, 1, -4>>, 150, 24000) }

Sentiment(market) == market.market_sentiment

VixLevel(market) == market.quotes[4].price

(***************************************************************************)
(* Customer profile as fetched by get_customer_data.  present = FALSE is   *)
(* the None the fetch returns for a missing customer.  riskProfile = ""    *)
(* and riskScore = NoScore stand for keys missing from the payload.        *)
(* featuresOk = FALSE is a payload whose numeric fields do not form a      *)
(* feature vector (a null or non-numeric field), so that the scaler or the *)
(* model raises.  mlRisk / mlReturn are what the loaded models predict for *)
(* this customer's features (hundredths).                                  *)
(***************************************************************************)
NoScore == -1

Customer(profile, score, ok, mlRisk, mlReturn) ==
    [present |-> TRUE, riskProfile |-> profile, riskScore |-> score,
     featuresOk |-> ok, mlRisk |-> mlRisk, mlReturn |-> mlReturn]

NoCustomer ==
    [present |-> FALSE, riskProfile |-> "", riskScore |-> NoScore,
     featuresOk |-> FALSE, mlRisk |-> 0, mlReturn |-> 0]

\* The outcome of a call: a value, or an exception leaving the function.
Returned(v) == [raised |-> FALSE, value |-> v]

Raised == [raised |-> TRUE, value |-> 0]

\* customer_data.get("riskScore", default): AttributeError on None.
GetRiskScore(customer, default) ==
    IF ~customer.present THEN Raised
    ELSE IF customer.riskScore = NoScore THEN Returned(default)
    ELSE Returned(customer.riskScore)

\* customer_data.get("riskProfile", "MEDIUM") for a present customer.
GetRiskProfile(customer) ==
    IF customer.riskProfile = "" THEN "MEDIUM" ELSE customer.riskProfile

(***************************************************************************)
(* predict_risk_score (ai_service.py 88-151).                              *)
(***************************************************************************)
DefaultRiskScore == 500

\* (the final clamp without the market adjustment)
AdjustRiskByNothing(predicted_risk, market) ==
    Max(100, Min(1000, predicted_risk))

\* Lines 136-147: the market adjustment and the final clamp of the try body.
AdjustRisk(predicted_risk, market) ==
    LET adjusted ==
            IF market.hasData /\ Sentiment(market) = "BEARISH"
                THEN Min(1000, predicted_risk + 100)
            ELSE IF market.hasData /\ Sentiment(market) = "BULLISH"
                THEN Max(100, predicted_risk - 50)
            ELSE predicted_risk
    IN  Max(100, Min(1000, adjusted))

\* Lines 149-151: the except handler.
RiskFallback(customer) == GetRiskScore(customer, DefaultRiskScore)

PredictRiskScore(risk_model, customer, market) ==
    IF ~risk_model THEN GetRiskScore(customer, DefaultRiskScore)
    ELSE IF ~customer.present \/ ~customer.featuresOk
            THEN RiskFallback(customer)           \* the try body raised
    ELSE Returned(AdjustRisk(customer.mlRisk, market))

(***************************************************************************)
(* predict_expected_return (ai_service.py 153-238).                        *)
(***************************************************************************)
DefaultReturn == 800

\* sp500_return * 0.3 in thousandths: 0.08 by default, the ^GSPC
\* change_percent / 100 when the snapshot carries it.
Sp500Permille(market) ==
    IF market.hasData /\ Len(market.quotes) >= 1
        THEN 3 * market.quotes[1].pct
    ELSE 24

\* Lines 220-234: the market adjustment, the benchmark factor, the clamp.
AdjustReturn(predicted_return, market) ==
    LET bySentiment ==
            IF market.hasData /\ Sentiment(market) = "BULLISH"
                THEN Min(2500, predicted_return + 200)
            ELSE IF market.hasData /\ Sentiment(market) = "BEARISH"
                THEN Max(0, predicted_return - 100)
            ELSE predicted_return
        byBenchmark ==
            IF market.hasData
                THEN RoundDiv(bySentiment * (1000 + Sp500Permille(market)), 1000)
            ELSE bySentiment
    IN  Max(0, Min(2500, byBenchmark))

PredictExpectedReturn(return_model, customer, market) ==
    IF ~return_model THEN Returned(DefaultReturn)
    ELSE IF ~customer.present \/ ~customer.featuresOk
            THEN Returned(DefaultReturn)          \* the try body raised
    ELSE Returned(AdjustReturn(customer.mlReturn, market))

(***************************************************************************)
(* Product catalog (ai_service.py 240-424).                                *)
(* random is a deterministic generator once seeded: draw k of the stream   *)
(* seeded with seed is Draw(seed, k, lo, hi).  _load_investment_products   *)
(* seeds it with the wall clock (line 327), so the seed is an input the    *)
(* caller does not control.                                                *)
(***************************************************************************)
Draw(seed, k, lo, hi) ==
    lo + ((seed * 37 + k * 11 + seed * k * 5) % (hi - lo + 1))

\* Lines 253-324: asset_type, base_return (tenths), risk_level,
\* min_investment (thousands of VND).
ProductTemplates ==
    << [asset_type |-> "SAVINGS", base_return |-> 60,  risk_level |-> "LOW",
        min_investment |-> 1000],
       [asset_type |-> "FUND",    base_return |-> 120, risk_level |-> "MEDIUM",
        min_investment |-> 500],
       [asset_type |-> "BOND",    base_return |-> 85,  risk_level |-> "LOW",
        min_investment |-> 100],
       [asset_type |-> "STOCK",   base_return |-> 150, risk_level |-> "HIGH",
        min_investment |-> 1000],
       [asset_type |-> "GOLD",    base_return |-> 60,  risk_level |-> "MEDIUM",
        min_investment |-> 500] >>

\* Lines 1353-1427: _get_<type>_market_adjustment, in tenths.
MarketAdjustment(asset_type, market) ==
    IF ~market.hasData THEN 0
    ELSE CASE asset_type = "SAVINGS" ->
                IF market.usdvnd > 24000 THEN 5
                ELSE IF market.usdvnd < 23000 THEN -5 ELSE 0
           [] asset_type = "FUND" ->
                IF Sentiment(market) = "BULLISH" THEN 10
                ELSE IF Sentiment(market) = "BEARISH" THEN -10 ELSE 0
           [] asset_type = "BOND" ->
                IF Sentiment(market) = "BEARISH" THEN 5
                ELSE IF Sentiment(market) = "BULLISH" THEN -5 ELSE 0
           [] asset_type = "STOCK" ->
                IF Sentiment(market) = "BULLISH" THEN 20
                ELSE IF Sentiment(market) = "BEARISH" THEN -20 ELSE 0
           [] asset_type = "GOLD" ->
                IF Sentiment(market) = "BEARISH" THEN 10
                ELSE IF Sentiment(market) = "BULLISH" THEN -5 ELSE 0
           [] OTHER -> 0

NoMax == -1

\* Lines 333-420: product i (from 0) of template t.
MakeProduct(seed, t, i, market) ==
    LET template == ProductTemplates[t]
        return_variation == Draw(seed, 16 * t + 4 * i + 1, -20, 20)
        factor == Draw(seed, 16 * t + 4 * i + 2, 80, 150)
    IN  [asset_type |-> template.asset_type,
         expected_return |->
             Max(0, template.base_return + return_variation
                    + MarketAdjustment(template.asset_type, market)),
         risk_level |-> template.risk_level,
         min_investment |-> RoundDiv(template.min_investment * factor, 100),
         max_investment |-> NoMax,
         market_data_integrated |-> market.hasData]

\* Line 331: num_products = random.randint(2, 4).
NumProducts(seed, t) == Draw(seed, 16 * t, 2, 4)

RECURSIVE ProductsFrom(_, _, _, _)
ProductsFrom(seed, t, i, market) ==
    IF t > Len(ProductTemplates) THEN <<>>
    ELSE IF i >= NumProducts(seed, t) THEN ProductsFrom(seed, t + 1, 0, market)
    ELSE <<MakeProduct(seed, t, i, market)>> \o ProductsFrom(seed, t, i + 1, market)

LoadInvestmentProducts(seed, market) == ProductsFrom(seed, 1, 0, market)

(***************************************************************************)
(* Suitability filter (ai_service.py 529-537, 1186-1205).                  *)
(***************************************************************************)
\* RiskMapping with each profile admitting products of its own level only.
RiskMappingOwnLevel(risk_profile) == {risk_profile}

RiskMapping(risk_profile) ==
    CASE risk_profile = "LOW"    -> {"LOW"}
      [] risk_profile = "MEDIUM" -> {"LOW", "MEDIUM"}
      [] risk_profile = "HIGH"   -> {"LOW", "MEDIUM", "HIGH"}
      [] OTHER                   -> {"MEDIUM"}

\* IsProductSuitable with every profile admitting what HIGH admits.
IsProductSuitableAsHigh(product, risk_profile) ==
    product.risk_level \in RiskMapping("HIGH")

IsProductSuitable(product, risk_profile) ==
    product.risk_level \in RiskMapping(risk_profile)

\* IsProductSuitableForMarketConditions with the sentiment tests left out.
IsProductSuitableInAnyMarket(product, market) == TRUE

IsProductSuitableForMarketConditions(product, market) ==
    IF ~market.hasData THEN TRUE
    ELSE IF product.asset_type = "STOCK" THEN Sentiment(market) # "BEARISH"
    ELSE IF product.asset_type = "BOND" THEN Sentiment(market) # "BULLISH"
    ELSE IF product.asset_type = "GOLD" THEN Sentiment(market) # "BULLISH"
    ELSE TRUE

(***************************************************************************)
(* Scoring (ai_service.py 539-599, 1207-1253), in tenths.                  *)
(***************************************************************************)
NoAmount == -1

\* if investment_amount: None and 0 are both false.
AmountGiven(investment_amount) ==
    investment_amount # NoAmount /\ investment_amount # 0

RECURSIVE AssetTypesOf(_)
AssetTypesOf(asset_data) ==
    IF asset_data = <<>> THEN {}
    ELSE {Head(asset_data).assetType} \cup AssetTypesOf(Tail(asset_data))

\* Lines 553-559.
RiskAlignmentBonus(product, risk_profile) ==
    IF product.risk_level = risk_profile THEN 200
    ELSE IF (risk_profile = "HIGH" /\ product.risk_level = "MEDIUM")
            \/ (risk_profile = "LOW" /\ product.risk_level = "MEDIUM") THEN 100
    ELSE 0

\* (no market-sentiment adjustment)
MarketSentimentIgnored(product, market) == 0

\* Lines 566-590.
MarketSentimentBonus(product, market) ==
    IF ~market.hasData THEN 0
    ELSE CASE product.asset_type = "STOCK" ->
                IF Sentiment(market) = "BULLISH" THEN 150
                ELSE IF Sentiment(market) = "BEARISH" THEN -100 ELSE 0
           [] product.asset_type = "BOND" ->
                IF Sentiment(market) = "BEARISH" THEN 100
                ELSE IF Sentiment(market) = "BULLISH" THEN -50 ELSE 0
           [] product.asset_type = "GOLD" ->
                IF Sentiment(market) = "BEARISH" THEN 100 ELSE 0
           [] product.asset_type = "SAVINGS" -> 50
           [] OTHER -> 0

\* Lines 592-597.
AmountBonus(product, investment_amount) ==
    IF ~AmountGiven(investment_amount) THEN 0
    ELSE IF product.min_investment <= investment_amount THEN 100
    ELSE -200

CalculateProductScoreWithMarketData(product, customer, asset_data, market, investment_amount) ==
    product.expected_return * 2
    + RiskAlignmentBonus(product, GetRiskProfile(customer))
    + (IF product.asset_type \notin AssetTypesOf(asset_data) THEN 150 ELSE 0)
    + MarketSentimentBonus(product, market)
    + AmountBonus(product, investment_amount)

ProductRiskMapping(risk_level) ==
    CASE risk_level = "LOW" -> 300
      [] risk_level = "MEDIUM" -> 600
      [] risk_level = "HIGH" -> 900
      [] OTHER -> 600

CalculateMlBasedAdjustment(product, predicted_risk_score, predicted_expected_return, market) ==
    LET risk_diff == Abs(predicted_risk_score
                         - ProductRiskMapping(product.risk_level))
        return_diff == Abs(predicted_expected_return
                           - 10 * product.expected_return)
    IN  (IF risk_diff <= 200 THEN 100 ELSE IF risk_diff <= 400 THEN 50 ELSE -50)
        + (IF return_diff <= 300 THEN 80
           ELSE IF return_diff <= 600 THEN 40 ELSE -30)
        + (IF market.hasData /\ market.hasVix
              THEN IF VixLevel(market) > 30
                      THEN IF product.asset_type \in {"SAVINGS", "BOND"} THEN 50
                           ELSE IF product.asset_type = "STOCK" THEN -50 ELSE 0
                   ELSE IF VixLevel(market) < 15 /\ product.asset_type = "STOCK"
                      THEN 50
                   ELSE 0
           ELSE 0)

(***************************************************************************)
(* generate_recommendations (ai_service.py 426-527).                       *)
(***************************************************************************)
\* Lines 451-457: the products passing both filters, in catalog order, each
\* with its position in the catalog.
RECURSIVE SuitableFrom(_, _, _, _)
SuitableFrom(catalog, i, risk_profile, market) ==
    IF i > Len(catalog) THEN <<>>
    ELSE IF IsProductSuitable(catalog[i], risk_profile)
            /\ IsProductSuitableForMarketConditions(catalog[i], market)
        THEN <<i>> \o SuitableFrom(catalog, i + 1, risk_profile, market)
    ELSE SuitableFrom(catalog, i + 1, risk_profile, market)

\* Lines 462-470: the rule-based score plus the ML adjustment.
TotalScore(product, customer, asset_data, market, investment_amount, predicted_risk_score, predicted_expected_return) ==
    CalculateProductScoreWithMarketData(product, customer, asset_data, market,
                                        investment_amount)
    + CalculateMlBasedAdjustment(product, predicted_risk_score,
                                 predicted_expected_return, market)

\* Line 475: list.sort(key=score, reverse=True) is stable: entries of equal
\* score keep their order.  Insert x behind every entry scoring >= x.
RECURSIVE InsertByScore(_, _)
InsertByScore(sorted, x) ==
    IF sorted = <<>> THEN <<x>>
    ELSE IF Head(sorted).score >= x.score
        THEN <<Head(sorted)>> \o InsertByScore(Tail(sorted), x)
    ELSE <<x>> \o sorted

\* SortByScore with the sort left out.
SortByScoreSkipped(scored) == scored

RECURSIVE SortByScore(_)
SortByScore(scored) ==
    IF scored = <<>> THEN <<>>
    ELSE InsertByScore(SortByScore(SubSeq(scored, 1, Len(scored) - 1)),
                       scored[Len(scored)])

\* Line 478: scored_products[:5].
TopN == 5

TopRecommendations(sorted) == SubSeq(sorted, 1, Min(TopN, Len(sorted)))

\* Line 480: min(score / 100, 1.0), in thousandths.
ConfidenceScore(score) == Min(score, 1000)

\* Lines 479-496: the recommendation built from a copy of the product.
MakeRecommendation(entry, market, investment_amount) ==
    LET product == entry.product
    IN  [asset_type |-> product.asset_type,
         expected_return |-> product.expected_return,
         risk_level |-> product.risk_level,
         min_investment |->
             IF AmountGiven(investment_amount)
                /\ investment_amount < product.min_investment
                 THEN investment_amount ELSE product.min_investment,
         max_investment |->
             IF AmountGiven(investment_amount) /\ product.max_investment # NoMax
                 THEN Min(product.max_investment, investment_amount)
             ELSE product.max_investment,
         market_data_integrated |-> product.market_data_integrated,
         confidence_score |-> ConfidenceScore(entry.score),
         market_sentiment |->
             IF market.hasData THEN Sentiment(market) ELSE "NEUTRAL"]

\* The dict the assignments of lines 480-492 write to, were line 479
\* `recommendation = product' with no copy: the catalog's own product.
ProductAliased(product, recommendation) == recommendation

\* Line 479: recommendation = product.copy() is a new dict, so the
\* assignments of lines 480-492 leave the catalog's product as it was.
ProductAfterCopy(product, recommendation) == product

\* self.investment_products once the loop of 477-496 has run over `top'.
CatalogAfter(catalog, top, market, investment_amount) ==
    [i \in 1..Len(catalog) |->
        IF \E k \in 1..Len(top) : top[k].index = i
            THEN LET k == CHOOSE k \in 1..Len(top) : top[k].index = i
                 IN  ProductAfterCopy(catalog[i],
                         MakeRecommendation(top[k], market, investment_amount))
        ELSE catalog[i]]

\* The call's outcome: raised, or the recommendations, beside the function's
\* locals scored_products (after the sort), its slice top, the predictions
\* it used, and the catalog as the call leaves it.
GenerateRecommendations(catalog, risk_model, return_model, customer, asset_data, market, investment_amount) ==
    LET risk == PredictRiskScore(risk_model, customer, market)
        ret  == PredictExpectedReturn(return_model, customer, market)
    IN  IF risk.raised \/ ret.raised \/ ~customer.present
            THEN [raised |-> TRUE, recommendations |-> <<>>,
                  scored_products |-> <<>>, top |-> <<>>,
                  predicted_risk_score |-> 0,
                  predicted_expected_return |-> 0, catalog |-> catalog]
        ELSE LET suitable == SuitableFrom(catalog, 1, GetRiskProfile(customer),
                                          market)
                 scored == [k \in 1..Len(suitable) |->
                              [product |-> catalog[suitable[k]],
                               index |-> suitable[k],
                               score |-> TotalScore(catalog[suitable[k]],
                                           customer, asset_data, market,
                                           investment_amount, risk.value,
                                           ret.value)]]
                 sorted == SortByScore(scored)
                 top == TopRecommendations(sorted)
             IN  [raised |-> FALSE,
                  recommendations |->
                      [k \in 1..Len(top) |->
                          MakeRecommendation(top[k], market, investment_amount)],
                  scored_products |-> sorted,
                  top |-> top,
                  predicted_risk_score |-> risk.value,
                  predicted_expected_return |-> ret.value,
                  catalog |-> CatalogAfter(catalog, top, market,
                                           investment_amount)]

\* An asset as fetched by get_asset_data.
Holding(assetType, currentValue, initialValue, riskLevel) ==
    [assetName |-> assetType, assetType |-> assetType,
     currentValue |-> currentValue, initialValue |-> initialValue,
     riskLevel |-> riskLevel]

(***************************************************************************)
(* analyze_portfolio (601-694) and assess_risk (800-947): which inputs make *)
(* the call raise, and the figures the handlers' callers read.             *)
(***************************************************************************)
RECURSIVE TotalValue(_)
TotalValue(asset_data) ==
    IF asset_data = <<>> THEN 0
    ELSE Head(asset_data).currentValue + TotalValue(Tail(asset_data))

\* sum(...) over a list of numbers.
RECURSIVE SumSeq(_)
SumSeq(s) == IF s = <<>> THEN 0 ELSE Head(s) + SumSeq(Tail(s))

\* Sum of currentValue x weights[asset[field]] over the holdings.
WeightedValue(asset_data, field, weights) ==
    SumSeq([i \in 1..Len(asset_data) |->
               asset_data[i].currentValue * weights[asset_data[i][field]]])

\* The currentValue held in asset types of the set `types'.
ValueOfTypes(asset_data, types) ==
    WeightedValue(asset_data, "assetType",
                  [t \in AssetType |-> IF t \in types THEN 1 ELSE 0])

\* asset_allocation (632-644): per asset type the summed currentValue,
\* converted to (v / total_value) * 100 only if total_value > 0.  A figure
\* is the exact fraction num / den; all figures of one map share den.
AssetAllocationRaw(asset_data) ==
    [t \in AssetTypesOf(asset_data) |->
        [num |-> ValueOfTypes(asset_data, {t}), den |-> 1]]

\* (the conversion of lines 642-644 left out)
AssetAllocationUnconverted(asset_data) == AssetAllocationRaw(asset_data)

AssetAllocation(asset_data) ==
    LET total == TotalValue(asset_data)
    IN  IF total > 0
           THEN [t \in AssetTypesOf(asset_data) |->
                   [num |-> 100 * ValueOfTypes(asset_data, {t}), den |-> total]]
        ELSE AssetAllocationRaw(asset_data)

\* _calculate_portfolio_risk_score (696-714), hundredths.
CalculatePortfolioRiskScore(asset_data) ==
    LET total == TotalValue(asset_data)
        risk_weights == [l \in RiskLevel |->
                           IF l = "LOW" THEN 3 ELSE IF l = "MEDIUM" THEN 6 ELSE 9]
    IN  IF asset_data = <<>> \/ total = 0 THEN 500
        ELSE RoundDiv(100 * WeightedValue(asset_data, "riskLevel", risk_weights),
                      total)

\* _calculate_diversification_score (716-731) as an exact fraction:
\* max(0, min(n / 5, 1.0) - sum of (percentage - 50) / 100 over the
\* percentages above 50).
DiversificationWithoutPenalty(asset_allocation) ==
    IF DOMAIN asset_allocation = {} THEN [num |-> 0, den |-> 1]
    ELSE [num |-> 20 * Min(Cardinality(DOMAIN asset_allocation), 5),
          den |-> 100]

CalculateDiversificationScore(asset_allocation) ==
    IF DOMAIN asset_allocation = {} THEN [num |-> 0, den |-> 1]
    ELSE LET types == DOMAIN asset_allocation
             den == asset_allocation[CHOOSE t \in types : TRUE].den
             over == { t \in types : asset_allocation[t].num > 50 * den }
             RECURSIVE penalty(_)
             penalty(S) ==
                 IF S = {} THEN 0
                 ELSE LET t == CHOOSE x \in S : TRUE
                      IN  (asset_allocation[t].num - 50 * den)
                             + penalty(S \ {t})
         IN  [num |-> Max(0, 20 * Min(Cardinality(types), 5) * den
                                - penalty(over)),
              den |-> 100 * den]

\* _calculate_performance_score (733-765), tenths.
CalculatePerformanceScore(asset_data) ==
    LET counted == SelectSeq(asset_data, LAMBDA a : a.initialValue > 0)
        initial == SumSeq([i \in 1..Len(counted) |-> counted[i].initialValue])
        profit  == TotalValue(counted) - initial
    IN  IF asset_data = <<>> THEN 0
        ELSE IF initial = 0 THEN 5
        ELSE IF 100 * profit >= 10 * initial THEN 10
        ELSE IF 100 * profit >= 5 * initial THEN 8
        ELSE IF profit >= 0 THEN 6
        ELSE IF 100 * profit >= -5 * initial THEN 4
        ELSE 2

\* The score bands of lines 661-666 (score in hundredths).
RiskLevelOf(score) ==
    IF score <= 300 THEN "LOW" ELSE IF score <= 700 THEN "MEDIUM" ELSE "HIGH"

\* _generate_portfolio_recommendations (767-798): which messages are given.
GeneratePortfolioRecommendations(asset_allocation, risk_score, diversification_score, risk_profile) ==
    LET above(t, pct) ==
            /\ t \in DOMAIN asset_allocation
            /\ asset_allocation[t].num > pct * asset_allocation[t].den
        recs ==
            (IF 2 * diversification_score.num < diversification_score.den
                THEN <<"diversify">> ELSE <<>>)
            \o (IF risk_profile = "LOW" /\ risk_score > 600
                   THEN <<"reduce_risk">>
                ELSE IF risk_profile = "HIGH" /\ risk_score < 400
                   THEN <<"raise_risk">> ELSE <<>>)
            \o (IF above("SAVINGS", 80) THEN <<"higher_return">> ELSE <<>>)
            \o (IF above("STOCK", 60) THEN <<"fewer_stocks">> ELSE <<>>)
    IN  IF recs = <<>> THEN <<"balanced">> ELSE recs

\* (no early return: the figures lines 632-665 would compute for no
\* holdings)
EmptyPortfolioComputed ==
    [raised |-> FALSE, has_portfolio |-> TRUE, total_value |-> 0,
     asset_count |-> 0, risk_profile |-> "MEDIUM",
     asset_allocation |-> AssetAllocationRaw(<<>>),
     risk_score |-> CalculatePortfolioRiskScore(<<>>),
     risk_level |-> "MEDIUM",
     diversification_score |->
         CalculateDiversificationScore(AssetAllocationRaw(<<>>)),
     performance_score |-> CalculatePerformanceScore(<<>>),
     recommendations |->
         GeneratePortfolioRecommendations(AssetAllocationRaw(<<>>), 500,
             [num |-> 0, den |-> 1], "MEDIUM")]

\* The analysis returned for a customer without holdings (608-630).
EmptyPortfolioAnalysis ==
    [raised |-> FALSE, has_portfolio |-> FALSE, total_value |-> 0,
     asset_count |-> 0, risk_profile |-> "MEDIUM",
     asset_allocation |-> AssetAllocationRaw(<<>>),
     risk_score |-> 500, risk_level |-> "MEDIUM",
     diversification_score |-> [num |-> 0, den |-> 1],
     performance_score |-> 0, recommendations |-> <<"start">>]

\* analyze_portfolio (601-694).  Lines 608-630 return the canned analysis
\* before customer_data is read; with holdings,
\* _generate_portfolio_recommendations (782) and _identify_risk_factors
\* (1031) call customer_data.get, which raises on None.
AnalyzePortfolio(customer, asset_data, market) ==
    IF asset_data = <<>> THEN EmptyPortfolioAnalysis
    ELSE IF ~customer.present
        THEN [EmptyPortfolioAnalysis EXCEPT !.raised = TRUE,
                                            !.risk_profile = "",
                                            !.recommendations = <<>>]
    ELSE LET asset_allocation == AssetAllocation(asset_data)
             risk_score == CalculatePortfolioRiskScore(asset_data)
             diversification_score ==
                 CalculateDiversificationScore(asset_allocation)
         IN  [raised |-> FALSE, has_portfolio |-> TRUE,
              total_value |-> TotalValue(asset_data),
              asset_count |-> Len(asset_data),
              risk_profile |-> GetRiskProfile(customer),
              asset_allocation |-> asset_allocation,
              risk_score |-> risk_score,
              risk_level |-> RiskLevelOf(risk_score),
              diversification_score |-> diversification_score,
              performance_score |-> CalculatePerformanceScore(asset_data),
              recommendations |->
                  GeneratePortfolioRecommendations(asset_allocation,
                      risk_score, diversification_score,
                      GetRiskProfile(customer))]

\* (the index taken across asset types instead of across holdings)
ConcentrationAcrossTypes(asset_data) ==
    LET total == TotalValue(asset_data)
        order == <<"SAVINGS", "BOND", "STOCK", "FUND", "GOLD", "REAL_ESTATE">>
        squares == SumSeq([i \in 1..Len(order) |->
                              ValueOfTypes(asset_data, {order[i]})
                                 * ValueOfTypes(asset_data, {order[i]})])
    IN  IF asset_data = <<>> \/ total = 0 THEN [num |-> 0, den |-> 1]
        ELSE [num |-> squares, den |-> total * total]

\* _calculate_concentration_risk (1108-1124): the Herfindahl-Hirschman
\* index, the sum of (currentValue / total_value) ** 2 over the holdings,
\* capped at 1.0; 0.0 without holdings or with total_value 0.  Exact
\* fraction.
CalculateConcentrationRisk(asset_data) ==
    LET total == TotalValue(asset_data)
        squares == SumSeq([i \in 1..Len(asset_data) |->
                              asset_data[i].currentValue
                                 * asset_data[i].currentValue])
    IN  IF asset_data = <<>> \/ total = 0 THEN [num |-> 0, den |-> 1]
        ELSE IF squares > total * total THEN [num |-> 1, den |-> 1]
        ELSE [num |-> squares, den |-> total * total]

\* _estimate_portfolio_volatility (1126-1153), thousandths.
EstimatePortfolioVolatility(asset_data) ==
    LET total == TotalValue(asset_data)
        volatility_estimates ==
            [t \in AssetType |->
                IF t = "SAVINGS" THEN 20 ELSE IF t = "BOND" THEN 50
                ELSE IF t = "GOLD" THEN 150 ELSE IF t = "FUND" THEN 200
                ELSE IF t = "STOCK" THEN 250 ELSE 100]
    IN  IF asset_data = <<>> \/ total = 0 THEN 0
        ELSE RoundDiv(WeightedValue(asset_data, "assetType",
                                    volatility_estimates), total)

\* _calculate_stress_test_results (1041-1106).  Amounts in hundredths of the
\* money unit: total_value * (sum of percentage * rate) / 100 is the sum of
\* value * rate.  With holdings and total_value = 0 line 1069 divides by
\* zero.
CalculateStressTestResults(asset_data, total_value) ==
    LET crash == [t \in AssetType |->
                    IF t \in {"STOCK", "FUND"} THEN 15
                    ELSE IF t = "GOLD" THEN 5 ELSE 0]
        rate  == [t \in AssetType |->
                    IF t = "BOND" THEN 8 ELSE IF t = "SAVINGS" THEN 2 ELSE 0]
        high_risk == ValueOfTypes(asset_data, {"STOCK", "FUND"})
    IN  IF asset_data = <<>>
           THEN [raised |-> FALSE, estimated_loss |-> 0,
                 estimated_impact |-> 0, recovery_time |-> "N/A"]
        ELSE IF total_value = 0
           THEN [raised |-> TRUE, estimated_loss |-> 0,
                 estimated_impact |-> 0, recovery_time |-> ""]
        ELSE [raised |-> FALSE,
              estimated_loss |-> WeightedValue(asset_data, "assetType", crash),
              estimated_impact |-> WeightedValue(asset_data, "assetType", rate),
              recovery_time |->
                  IF 100 * high_risk > 50 * total_value THEN "3-5"
                  ELSE IF 100 * high_risk > 20 * total_value THEN "2-3"
                  ELSE "1-2"]

\* (a factor also for a holding at exactly 30 percent)
ConcentrationFactorsFrom30(asset_data) ==
    LET total == TotalValue(asset_data)
        over == SelectSeq(asset_data,
                          LAMBDA a : total > 0 /\ 100 * a.currentValue >= 30 * total)
    IN  [k \in 1..Len(over) |->
            [type |-> "concentration", asset |-> over[k].assetName,
             percentage |-> RoundDiv(10000 * over[k].currentValue, total),
             severity |-> IF 100 * over[k].currentValue > 50 * total
                             THEN "HIGH" ELSE "MEDIUM"]]

\* The concentration factors of assess_risk (829-844), one per holding above
\* 30 percent of total_value; percentage is round(percentage, 2) in
\* hundredths.
ConcentrationFactors(asset_data) ==
    LET total == TotalValue(asset_data)
        over == SelectSeq(asset_data,
                          LAMBDA a : total > 0 /\ 100 * a.currentValue > 30 * total)
    IN  [k \in 1..Len(over) |->
            [type |-> "concentration", asset |-> over[k].assetName,
             percentage |-> RoundDiv(10000 * over[k].currentValue, total),
             severity |-> IF 100 * over[k].currentValue > 50 * total
                             THEN "HIGH" ELSE "MEDIUM"]]

\* The risk-mismatch factor of assess_risk (846-856).
MismatchFactors(risk_profile, asset_data) ==
    IF risk_profile = "LOW" /\ \E i \in 1..Len(asset_data) :
                                   asset_data[i].riskLevel = "HIGH"
       THEN << [type |-> "risk_mismatch", asset |-> "", percentage |-> 0,
                severity |-> "MEDIUM"] >>
    ELSE <<>>

\* (the MEDIUM list whatever the level)
RiskMitigationForMedium(level) == <<"balance", "monitor">>

\* risk_mitigation (886-902): the list defined for the overall level.
RiskMitigation(level) ==
    IF level = "HIGH" THEN <<"safe_assets", "diversify", "stop_loss">>
    ELSE IF level = "MEDIUM" THEN <<"balance", "monitor">>
    ELSE <<"growth">>

\* assess_risk (800-947).  Lines 811-816 call the predictors and
\* customer_data.get("riskScore", ..), which raise on None; line 905 calls
\* _calculate_stress_test_results.  overall_risk_score is the mean of the
\* three scores (819), banded at 3 and 7 (822-827).
AssessRisk(risk_model, return_model, customer, asset_data, market) ==
    LET risk == PredictRiskScore(risk_model, customer, market)
        ret  == PredictExpectedReturn(return_model, customer, market)
        total_value == TotalValue(asset_data)
        stress == CalculateStressTestResults(asset_data, total_value)
        portfolio_risk_score == CalculatePortfolioRiskScore(asset_data)
        customer_risk_score == GetRiskScore(customer, risk.value).value
        sum == portfolio_risk_score + customer_risk_score + risk.value
        level == IF sum <= 3 * 300 THEN "LOW"
                 ELSE IF sum <= 3 * 700 THEN "MEDIUM" ELSE "HIGH"
        failed == risk.raised \/ ret.raised \/ ~customer.present
                     \/ stress.raised
    IN  [raised |-> failed,
         predicted_risk_score |-> IF failed THEN 0 ELSE risk.value,
         customer_risk_score |-> IF failed THEN 0 ELSE customer_risk_score,
         total_value |-> IF failed THEN 0 ELSE total_value,
         risk_profile |-> IF failed THEN "" ELSE GetRiskProfile(customer),
         portfolio_risk_score |-> IF failed THEN 0 ELSE portfolio_risk_score,
         overall_risk_score |->
             IF failed THEN [num |-> 0, den |-> 1] ELSE [num |-> sum, den |-> 3],
         overall_risk_level |-> IF failed THEN "" ELSE level,
         concentration_risk |->
             IF failed THEN [num |-> 0, den |-> 1]
             ELSE CalculateConcentrationRisk(asset_data),
         volatility_estimate |->
             IF failed THEN 0 ELSE EstimatePortfolioVolatility(asset_data),
         risk_factors |->
             IF failed THEN <<>>
             ELSE ConcentrationFactors(asset_data)
                     \o MismatchFactors(GetRiskProfile(customer), asset_data),
         risk_mitigation |-> IF failed THEN <<>> ELSE RiskMitigation(level),
         estimated_loss |-> stress.estimated_loss,
         estimated_impact |-> stress.estimated_impact,
         average_asset_value |->
             IF failed \/ asset_data = <<>> THEN [num |-> 0, den |-> 1]
             ELSE [num |-> total_value, den |-> Len(asset_data)]]

(***************************************************************************)
(* The service (app.py).  Task 0 is startup_event, which the server runs   *)
(* to completion before it accepts requests; tasks 1..NProcs are request   *)
(* slots.  A task's step is the code it runs between two suspensions.      *)
(* cache_service.get/set call the blocking redis client and never suspend; *)
(* the httpx fetches of customer and asset data always suspend; the market *)
(* fetches suspend only with an API key (without one get_stock_quote       *)
(* returns mock data at once), so without a key the task keeps the event   *)
(* loop across them and no other task runs.                                *)
(***************************************************************************)
Procs == 1..NProcs

Tasks == 0..NProcs

Seeds == 1..MaxSeed

CustomerIds == {"c0", "c1"}

\* What the customer service holds: c1 exists, c0 does not.
CustomerService(id) ==
    IF id = "c1" THEN Customer("HIGH", 800, TRUE, 900, 2000) ELSE NoCustomer

\* What the asset service holds.
AssetService(id) ==
    IF id = "c1" THEN <<Holding("SAVINGS", 100, 80, "LOW"),
                        Holding("STOCK", 300, 350, "HIGH")>>
    ELSE <<Holding("BOND", 50, 50, "LOW")>>

\* get_customer_data (288-300): the payload, or None on a non-200 or an error.
GetCustomerData(id) == {CustomerService(id), NoCustomer}

\* get_asset_data (302-315): the assets, or [] on a non-200 or an error.
GetAssetData(id) == {AssetService(id), <<>>}

\* Snapshots the running service may fetch.
SvcSnapshots ==
    { MarketOverview(<<2, 1, 1, 1>>, 12, 24000),
      MarketOverview(<<-2, -1, -1, -1>>, 20, 25000) }

\* The same without an API key: the quotes are mock data.
SvcMockSnapshots ==
    { MarketOverview(<<-3, -2, -1, -4>>, 120, 24000),
      MarketOverview(<<3, 2, 1, 4>>, 60, 24000) }

SvcMarkets == IF api_key THEN SvcSnapshots ELSE SvcMockSnapshots

SvcAmounts == {NoAmount, 50, 5000}

NoReq == [kind |-> "none", customer_id |-> "", amount |-> NoAmount,
          customer |-> NoCustomer, assets |-> <<>>]

NoBody == [empty |-> TRUE]

\* amount is request.investment_amount of the request the response answers.
NoResp == [status |-> 0, kind |-> "none", customer_id |-> "", detail |-> "",
           from_cache |-> FALSE, body |-> NoBody, amount |-> NoAmount]

CacheOps == {"recommendations", "analysis", "risk"}

CacheKeys == CacheOps \X CustomerIds

\* pcs at which a task is suspended and the event loop is free.
Yielding ==
    {"idle", "done", "customer", "assets"}
    \cup (IF api_key THEN {"market", "load", "overview"} ELSE {})

CanRun(p) == \A q \in Tasks \ {p} : pc[q] \in Yielding

\* The response leaves; the slot is free again.
Respond(p, r) ==
    /\ resp' = [resp EXCEPT ![p] = r]
    /\ pc' = [pc EXCEPT ![p] = "idle"]
    /\ req' = [req EXCEPT ![p] = NoReq]

Ok(kind, id, body, cached) ==
    [status |-> 200, kind |-> kind, customer_id |-> id, detail |-> "",
     from_cache |-> cached, body |-> body, amount |-> NoAmount]

\* raise HTTPException(status_code=404, ...) at line 79.
CustomerNotFound == [status |-> 404, exc |-> "HTTPException"]

\* An exception raised inside a handler's try block.
Failure(exc) == [status |-> 0, exc |-> exc]

\* except Exception as e: raise HTTPException(status_code=500, detail=str(e))
\* (114-115, 145-146, 174-175).  HTTPException is itself an Exception, so the
\* clause catches the 404 raised inside the same try.
ExceptClause(kind, id, raised) ==
    [status |-> 500, kind |-> kind, customer_id |-> id, detail |-> raised.exc,
     from_cache |-> FALSE, body |-> NoBody, amount |-> NoAmount]

\* cache_service.set (29-36): stored unless redis fails.
CacheSet(key, value, redisUp) ==
    IF redisUp THEN [cache EXCEPT ![key] = value] ELSE cache

\* cache_service.get with the redis error handed to the caller in place of
\* the None of line 27.
CacheGetUnguarded(key, redisUp) ==
    IF redisUp THEN cache[key] ELSE [empty |-> FALSE, error |-> "redis"]

\* cache_service.get (18-27): the entry, or None on a miss or a redis error.
CacheGet(key, redisUp) == IF redisUp THEN cache[key] ELSE NoBody

\* if not self.investment_products
CatalogEmpty == investment_products = <<>>

(***************************************************************************)
(* startup_event (37-46).                                                  *)
(***************************************************************************)
StartupEvent ==
    /\ pc[0] = "boot"
    /\ IF CatalogEmpty
          THEN /\ builds' = builds + 1
               /\ pc' = [pc EXCEPT ![0] = "load"]
          ELSE /\ pc' = [pc EXCEPT ![0] = "done"]
               /\ UNCHANGED builds
    /\ UNCHANGED <<api_key, investment_products, req, resp, cache, nreq>>

\* initialize_products' assignment when _load_investment_products returns.
StartupLoaded ==
    /\ pc[0] = "load"
    /\ \E seed \in Seeds, market \in SvcMarkets :
           investment_products' = LoadInvestmentProducts(seed, market)
    /\ pc' = [pc EXCEPT ![0] = "done"]
    /\ UNCHANGED <<api_key, req, resp, cache, builds, nreq>>

CanStart(p) ==
    /\ pc[0] = "done"
    /\ pc[p] = "idle"
    /\ nreq < MaxRequests
    /\ CanRun(p)

\* Lines 70-74, 122-126, 153-157: the cache is read first; a hit is returned.
StartCached(p, kind, op) ==
    /\ CanStart(p)
    /\ nreq' = nreq + 1
    /\ \E id \in CustomerIds, amount \in SvcAmounts, redisUp \in BOOLEAN :
         /\ kind = "recommend" \/ amount = NoAmount
         /\ LET cached_result == CacheGet(<<op, id>>, redisUp)
            IN  IF cached_result # NoBody
                   THEN Respond(p, [Ok(kind, id, cached_result, TRUE)
                                       EXCEPT !.amount = amount])
                   ELSE /\ pc' = [pc EXCEPT ![p] = "customer"]
                        /\ req' = [req EXCEPT ![p] =
                                     [NoReq EXCEPT !.kind = kind,
                                                   !.customer_id = id,
                                                   !.amount = amount]]
                        /\ UNCHANGED resp
    /\ UNCHANGED <<api_key, investment_products, cache, builds>>

GetRecommendations(p) == StartCached(p, "recommend", "recommendations")

GetPortfolioAnalysis(p) == StartCached(p, "analysis", "analysis")

GetRiskAssessment(p) == StartCached(p, "risk", "risk")

\* What /products and /test-products return: the catalog they read.
ProductsBody(products) == [products |-> products, total_count |-> Len(products)]

\* get_investment_products (189-213).
GetInvestmentProducts(p) ==
    /\ CanStart(p)
    /\ nreq' = nreq + 1
    /\ IF CatalogEmpty
          THEN /\ builds' = builds + 1
               /\ pc' = [pc EXCEPT ![p] = "load"]
               /\ req' = [req EXCEPT ![p] = [NoReq EXCEPT !.kind = "products"]]
               /\ UNCHANGED resp
          ELSE /\ Respond(p, Ok("products", "",
                                ProductsBody(investment_products), FALSE))
               /\ UNCHANGED builds
    /\ UNCHANGED <<api_key, investment_products, cache>>

\* test_product_generation (254-260): the catalog is emptied, then
\* initialize_products finds it empty and starts a build.
TestProductGeneration(p) ==
    /\ CanStart(p)
    /\ nreq' = nreq + 1
    /\ investment_products' = <<>>
    /\ builds' = builds + 1
    /\ pc' = [pc EXCEPT ![p] = "load"]
    /\ req' = [req EXCEPT ![p] = [NoReq EXCEPT !.kind = "refresh"]]
    /\ UNCHANGED <<api_key, resp, cache>>

\* The customer fetch returns.  Only get_recommendations tests it (78-79).
FetchCustomer(p) ==
    /\ pc[p] = "customer"
    /\ CanRun(p)
    /\ \E customer \in GetCustomerData(req[p].customer_id) :
         IF req[p].kind = "recommend" /\ ~customer.present
            THEN Respond(p, ExceptClause("recommend", req[p].customer_id,
                                         CustomerNotFound))
            ELSE /\ pc' = [pc EXCEPT ![p] = "assets"]
                 /\ req' = [req EXCEPT ![p].customer = customer]
                 /\ UNCHANGED resp
    /\ UNCHANGED <<api_key, investment_products, cache, builds, nreq>>

\* The asset fetch returns.  get_risk_assessment goes on to assess_risk,
\* which first awaits the market overview (808).
FetchAssets(p) ==
    /\ pc[p] = "assets"
    /\ CanRun(p)
    /\ \E assets \in GetAssetData(req[p].customer_id) :
           req' = [req EXCEPT ![p].assets = assets]
    /\ pc' = [pc EXCEPT ![p] =
                IF req[p].kind = "risk" THEN "overview" ELSE "market"]
    /\ UNCHANGED <<api_key, investment_products, resp, cache, builds, nreq>>

\* RecommendationResponse (models/recommendation.py 18-47): a recommendation
\* keeps the fields of InvestmentRecommendation; the constructor raises a
\* ValidationError when confidence_score is outside [0, 1] (ge=0, le=1) or a
\* level is no RiskLevel.
ResponseRecommendation(rec) ==
    [asset_type |-> rec.asset_type, expected_return |-> rec.expected_return,
     risk_level |-> rec.risk_level, min_investment |-> rec.min_investment,
     max_investment |-> rec.max_investment,
     confidence_score |-> rec.confidence_score]

ValidRecommendation(rec) ==
    /\ rec.confidence_score >= 0
    /\ rec.confidence_score <= 1000
    /\ rec.asset_type \in AssetType
    /\ rec.risk_level \in RiskLevel

RecommendationResponse(id, customer, asset_data, out) ==
    [customer_id |-> id,
     recommendations |->
         [k \in 1..Len(out.recommendations) |->
             ResponseRecommendation(out.recommendations[k])],
     risk_profile |-> GetRiskProfile(customer),
     total_current_assets |-> TotalValue(asset_data)]

ValidResponse(body) ==
    /\ body.risk_profile \in RiskLevel
    /\ \A k \in 1..Len(body.recommendations) :
           ValidRecommendation(body.recommendations[k])

\* generate_recommendations 435-437: the lazy build, or straight on to the
\* market overview of line 440.
EnterGenerate(p) ==
    IF CatalogEmpty
       THEN /\ builds' = builds + 1
            /\ pc' = [pc EXCEPT ![p] = "load"]
       ELSE /\ pc' = [pc EXCEPT ![p] = "overview"]
            /\ UNCHANGED builds

\* get_market_data returns (85, 131).  get_portfolio_analysis then runs
\* analyze_portfolio, stores and returns (134-143); get_recommendations
\* enters generate_recommendations.
FinishPortfolioAnalysis(p, market, redisUp) ==
    LET id == req[p].customer_id
        out == AnalyzePortfolio(req[p].customer, req[p].assets, market)
    IN  IF out.raised
           THEN /\ Respond(p, ExceptClause("analysis", id,
                                           Failure("AttributeError")))
                /\ UNCHANGED cache
           ELSE /\ Respond(p, Ok("analysis", id, out, FALSE))
                /\ cache' = CacheSet(<<"analysis", id>>, out, redisUp)

FetchMarket(p) ==
    /\ pc[p] = "market"
    /\ CanRun(p)
    /\ \E market \in SvcMarkets, redisUp \in BOOLEAN :
         IF req[p].kind = "analysis"
            THEN /\ FinishPortfolioAnalysis(p, market, redisUp)
                 /\ UNCHANGED builds
            ELSE /\ EnterGenerate(p)
                 /\ UNCHANGED <<req, resp, cache>>
    /\ UNCHANGED <<api_key, investment_products, nreq>>

\* _load_investment_products returns and initialize_products assigns the
\* catalog (1470).  /products reads it and returns (197); the other two go
\* on to a market overview (440, 268).
FinishLoad(p) ==
    /\ p \in Procs
    /\ pc[p] = "load"
    /\ CanRun(p)
    /\ \E seed \in Seeds, market \in SvcMarkets :
         LET products == LoadInvestmentProducts(seed, market)
         IN  /\ investment_products' = products
             /\ IF req[p].kind = "products"
                   THEN Respond(p, Ok("products", "", ProductsBody(products),
                                      FALSE))
                   ELSE /\ pc' = [pc EXCEPT ![p] = "overview"]
                        /\ UNCHANGED <<req, resp>>
    /\ UNCHANGED <<api_key, cache, builds, nreq>>

\* get_recommendations 88-112 once the overview of line 440 is in.
FinishRecommendations(p, market, redisUp) ==
    LET id == req[p].customer_id
        out == GenerateRecommendations(investment_products, TRUE, TRUE,
                   req[p].customer, req[p].assets, market, req[p].amount)
        body == RecommendationResponse(id, req[p].customer, req[p].assets, out)
    IN  /\ investment_products' = out.catalog
        /\ IF out.raised
              THEN /\ Respond(p, ExceptClause("recommend", id,
                                              Failure("AttributeError")))
                   /\ UNCHANGED cache
           ELSE IF ~ValidResponse(body)
              THEN /\ Respond(p, ExceptClause("recommend", id,
                                              Failure("ValidationError")))
                   /\ UNCHANGED cache
           ELSE /\ Respond(p, [Ok("recommend", id, body, FALSE)
                                    EXCEPT !.amount = req[p].amount])
                /\ cache' = CacheSet(<<"recommendations", id>>, body, redisUp)

\* get_risk_assessment 164-172 once the overview of line 808 is in.
FinishRiskAssessment(p, market, redisUp) ==
    LET id == req[p].customer_id
        out == AssessRisk(TRUE, TRUE, req[p].customer, req[p].assets, market)
    IN  IF out.raised
           THEN /\ Respond(p, ExceptClause("risk", id,
                                           Failure("AttributeError")))
                /\ UNCHANGED cache
           ELSE /\ Respond(p, Ok("risk", id, out, FALSE))
                /\ cache' = CacheSet(<<"risk", id>>, out, redisUp)

\* get_market_overview returns inside generate_recommendations (440),
\* assess_risk (808) or test_product_generation (268); the rest of each
\* handler runs without suspending.
FetchOverview(p) ==
    /\ pc[p] = "overview"
    /\ CanRun(p)
    /\ \E market \in SvcMarkets, redisUp \in BOOLEAN :
         CASE req[p].kind = "recommend" ->
                  FinishRecommendations(p, market, redisUp)
           [] req[p].kind = "risk" ->
                  /\ FinishRiskAssessment(p, market, redisUp)
                  /\ UNCHANGED investment_products
           [] OTHER ->
                  /\ Respond(p, Ok("refresh", "",
                                   ProductsBody(investment_products), FALSE))
                  /\ UNCHANGED <<cache, investment_products>>
    /\ UNCHANGED <<api_key, builds, nreq>>

\* A cache entry's TTL runs out (setex, cache_service.py 33).
Expire ==
    /\ \E key \in CacheKeys :
         /\ cache[key] # NoBody
         /\ cache' = [cache EXCEPT ![key] = NoBody]
    /\ UNCHANGED <<api_key, investment_products, pc, req, resp, builds, nreq>>

(***************************************************************************)
(* Spec: the service.                                                      *)
(***************************************************************************)
PredIdle == [phase |-> "off"]

RankIdle == [phase |-> "off"]

PortIdle == [phase |-> "off"]

MktIdle == [phase |-> "off"]

HndIdle == [phase |-> "off"]

SvcInit ==
    /\ investment_products = <<>>
    /\ pc = [p \in Tasks |-> IF p = 0 THEN "boot" ELSE "idle"]
    /\ req = [p \in Procs |-> NoReq]
    /\ resp = [p \in Procs |-> NoResp]
    /\ cache = [key \in CacheKeys |-> NoBody]
    /\ builds = 0
    /\ nreq = 0

Init ==
    /\ api_key \in BOOLEAN
    /\ SvcInit
    /\ pred = PredIdle
    /\ rank = RankIdle
    /\ port = PortIdle
    /\ mkt = MktIdle
    /\ hnd = HndIdle

Next ==
    \/ (StartupEvent /\ UNCHANGED <<pred, rank, port, mkt, hnd>>)
    \/ (StartupLoaded /\ UNCHANGED <<pred, rank, port, mkt, hnd>>)
    \/ (Expire /\ UNCHANGED <<pred, rank, port, mkt, hnd>>)
    \/ (\E p \in Procs : GetRecommendations(p) /\ UNCHANGED <<pred, rank, port, mkt, hnd>>)
    \/ (\E p \in Procs : GetPortfolioAnalysis(p) /\ UNCHANGED <<pred, rank, port, mkt, hnd>>)
    \/ (\E p \in Procs : GetRiskAssessment(p) /\ UNCHANGED <<pred, rank, port, mkt, hnd>>)
    \/ (\E p \in Procs : GetInvestmentProducts(p) /\ UNCHANGED <<pred, rank, port, mkt, hnd>>)
    \/ (\E p \in Procs : TestProductGeneration(p) /\ UNCHANGED <<pred, rank, port, mkt, hnd>>)
    \/ (\E p \in Procs : FetchCustomer(p) /\ UNCHANGED <<pred, rank, port, mkt, hnd>>)
    \/ (\E p \in Procs : FetchAssets(p) /\ UNCHANGED <<pred, rank, port, mkt, hnd>>)
    \/ (\E p \in Procs : FetchMarket(p) /\ UNCHANGED <<pred, rank, port, mkt, hnd>>)
    \/ (\E p \in Procs : FinishLoad(p) /\ UNCHANGED <<pred, rank, port, mkt, hnd>>)
    \/ (\E p \in Procs : FetchOverview(p) /\ UNCHANGED <<pred, rank, port, mkt, hnd>>)

Spec == Init /\ [][Next]_vars

(***************************************************************************)
(* SpecPredict: predict_risk_score and predict_expected_return called on   *)
(* every combination of model availability, customer payload and snapshot. *)
(***************************************************************************)
\* What the trained models predict (hundredths): _train_models clips the
\* risk targets to [1, 10] and the return targets to [0, 20].
Predictions == {<<100, 0>>, <<550, 1200>>, <<1000, 2000>>}

\* riskScore: missing, or a self-reported score.
RiskScores == {NoScore, 0, 500, 1000}

PredCustomers ==
    {NoCustomer} \cup
    { Customer("MEDIUM", score, ok, ml[1], ml[2]) :
        score \in RiskScores, ok \in BOOLEAN, ml \in Predictions }

PredMarkets == Snapshots \cup {NoMarket}

NoOutcome == [raised |-> FALSE, value |-> -1]

SvcIdle ==
    /\ api_key = FALSE
    /\ SvcInit

InitPredict ==
    /\ pred \in [phase : {"call"}, risk_model : BOOLEAN,
                 return_model : BOOLEAN, customer : PredCustomers,
                 market : PredMarkets, risk : {NoOutcome}, ret : {NoOutcome}]
    /\ rank = RankIdle
    /\ port = PortIdle
    /\ mkt = MktIdle
    /\ hnd = HndIdle
    /\ SvcIdle

CallPredictRiskScore ==
    /\ pred.phase = "call"
    /\ pred' = [pred EXCEPT
                  !.phase = "risk",
                  !.risk = PredictRiskScore(pred.risk_model, pred.customer,
                                            pred.market)]
    /\ UNCHANGED <<rank, port, mkt, hnd, svcVars>>

CallPredictExpectedReturn ==
    /\ pred.phase = "risk"
    /\ pred' = [pred EXCEPT
                  !.phase = "done",
                  !.ret = PredictExpectedReturn(pred.return_model,
                                                pred.customer, pred.market)]
    /\ UNCHANGED <<rank, port, mkt, hnd, svcVars>>

NextPredict ==
    \/ CallPredictRiskScore
    \/ CallPredictExpectedReturn

SpecPredict == InitPredict /\ [][NextPredict]_vars

(***************************************************************************)
(* SpecRank: generate_recommendations called once on every combination of  *)
(* catalog, customer, holdings, snapshot and amount.                       *)
(***************************************************************************)
RankCustomers ==
    { Customer(profile, c[1], c[2], c[3], c[4]) :
        profile \in {"LOW", "MEDIUM", "HIGH", ""},
        c \in { <<300, TRUE, 200, 500>>, <<800, TRUE, 950, 2000>>,
                <<500, FALSE, 600, 1200>> } }

RankHoldings ==
    { <<>>,
      <<Holding("STOCK", 100, 100, "HIGH")>>,
      <<Holding("SAVINGS", 100, 80, "LOW"), Holding("BOND", 50, 50, "LOW")>>,
      <<Holding("SAVINGS", 10, 10, "LOW"), Holding("FUND", 10, 10, "MEDIUM"),
        Holding("BOND", 10, 10, "LOW"), Holding("STOCK", 10, 10, "HIGH"),
        Holding("GOLD", 10, 10, "MEDIUM")>> }

\* investment_amount: None, 0, and amounts below, between and above the
\* catalog's minimum investments (thousands of VND).
RankAmounts == {NoAmount, 0, 50, 1000, 5000}

\* The catalogs a build can leave behind.
Catalogs ==
    { LoadInvestmentProducts(seed, market) :
        seed \in Seeds, market \in SvcSnapshots \cup {MockMarketOverview(<<1, 1, 1>>)} }

NoOut == [raised |-> FALSE, recommendations |-> <<>>, scored_products |-> <<>>,
          top |-> <<>>, predicted_risk_score |-> 0,
          predicted_expected_return |-> 0, catalog |-> <<>>]

\* What get_market_overview (440, 808) can return: with an API key a live
\* snapshot, or mock quotes where a fetch failed; without one only mock
\* quotes.
OverviewsFor(key) ==
    IF key THEN Snapshots \cup MockSnapshots ELSE MockSnapshots

InitRank ==
    /\ api_key \in BOOLEAN
    /\ rank \in [phase : {"call"}, catalog : Catalogs,
                 customer : RankCustomers, asset_data : RankHoldings,
                 market : OverviewsFor(api_key),
                 investment_amount : RankAmounts, out : {NoOut}]
    /\ pred = PredIdle
    /\ port = PortIdle
    /\ mkt = MktIdle
    /\ hnd = HndIdle
    /\ SvcInit

CallGenerateRecommendations ==
    /\ rank.phase = "call"
    /\ rank' = [rank EXCEPT
                  !.phase = "done",
                  !.out = GenerateRecommendations(rank.catalog, TRUE, TRUE,
                              rank.customer, rank.asset_data, rank.market,
                              rank.investment_amount)]
    /\ UNCHANGED <<pred, port, mkt, hnd, svcVars>>

NextRank == CallGenerateRecommendations

SpecRank == InitRank /\ [][NextRank]_vars

(***************************************************************************)
(* SpecPortfolio: analyze_portfolio and then assess_risk called on every   *)
(* combination of customer, holdings and snapshot.                         *)
(***************************************************************************)
PortCustomers == RankCustomers \cup {NoCustomer}

\* Holdings as the asset service returns them: none, one or two assets of
\* any type and value (a value of 0 included), and some longer lists.
PortAssets ==
    { Holding(t[1], v, 50, t[2]) :
        t \in { <<"STOCK", "HIGH">>, <<"SAVINGS", "LOW">>, <<"BOND", "LOW">>,
                <<"GOLD", "MEDIUM">> },
        v \in {0, 30, 50, 70, 100} }

PortHoldings ==
    {<<>>} \cup { <<a>> : a \in PortAssets }
           \cup { <<a, b>> : a \in PortAssets, b \in PortAssets }
           \cup { <<Holding("STOCK", 30, 0, "HIGH"), Holding("BOND", 30, 20, "LOW"),
                    Holding("SAVINGS", 40, 40, "LOW")>>,
                  <<Holding("FUND", 100, 0, "MEDIUM"), Holding("FUND", 100, 0, "MEDIUM"),
                    Holding("GOLD", 100, 0, "MEDIUM")>>,
                  <<Holding("SAVINGS", 10, 10, "LOW"), Holding("FUND", 10, 10, "MEDIUM"),
                    Holding("BOND", 10, 10, "LOW"), Holding("STOCK", 10, 10, "HIGH"),
                    Holding("GOLD", 10, 10, "MEDIUM")>> }

NoAnalysis == [raised |-> FALSE, pending |-> TRUE]

InitPortfolio ==
    /\ port \in [phase : {"call"}, customer : PortCustomers,
                 asset_data : PortHoldings, market : MockSnapshots,
                 analysis : {NoAnalysis}, assessment : {NoAnalysis}]
    /\ pred = PredIdle
    /\ rank = RankIdle
    /\ mkt = MktIdle
    /\ hnd = HndIdle
    /\ SvcIdle

CallAnalyzePortfolio ==
    /\ port.phase = "call"
    /\ port' = [port EXCEPT
                  !.phase = "analyzed",
                  !.analysis = AnalyzePortfolio(port.customer, port.asset_data,
                                                port.market)]
    /\ UNCHANGED <<pred, rank, mkt, hnd, svcVars>>

CallAssessRisk ==
    /\ port.phase = "analyzed"
    /\ port' = [port EXCEPT
                  !.phase = "done",
                  !.assessment = AssessRisk(TRUE, TRUE, port.customer,
                                            port.asset_data, port.market)]
    /\ UNCHANGED <<pred, rank, mkt, hnd, svcVars>>

NextPortfolio ==
    \/ CallAnalyzePortfolio
    \/ CallAssessRisk

SpecPortfolio == InitPortfolio /\ [][NextPortfolio]_vars

(***************************************************************************)
(* SpecMarket: _calculate_market_sentiment called on every index_data of   *)
(* up to MaxIndices entries whose change is negative, zero, positive or    *)
(* missing, and on every series of 2 x MaxIndices rising and falling       *)
(* quotes (where 70% and 30% are met exactly).                             *)
(***************************************************************************)
MaxIndices == 5

IndexData ==
    UNION { [1..n -> {Quote(100, -2), Quote(100, 0), Quote(100, 3),
                      QuoteWithoutChange}] : n \in 0..MaxIndices }
    \cup [1..(2 * MaxIndices) -> {Quote(100, -2), Quote(100, 3)}]

InitMarket ==
    /\ mkt \in [phase : {"call"}, index_data : IndexData, sentiment : {""}]
    /\ hnd = HndIdle
    /\ pred = PredIdle
    /\ rank = RankIdle
    /\ port = PortIdle
    /\ SvcIdle

CallCalculateMarketSentiment ==
    /\ mkt.phase = "call"
    /\ mkt' = [mkt EXCEPT
                 !.phase = "done",
                 !.sentiment = CalculateMarketSentiment(mkt.index_data)]
    /\ UNCHANGED <<pred, rank, port, hnd, svcVars>>

NextMarket == CallCalculateMarketSentiment

SpecMarket == InitMarket /\ [][NextMarket]_vars

(***************************************************************************)
(* SpecCache: one request to a cached handler (app.py 66-175), from its    *)
(* cache read to its response, on every combination of handler, customer   *)
(* payload, holdings, snapshot, amount, entry already under its key and    *)
(* outcome of the two redis calls.                                         *)
(***************************************************************************)
\* The cache key's operation prefix (70, 122, 153).
OpOf(kind) == IF kind = "recommend" THEN "recommendations" ELSE kind

\* What a handler answers when it finds no cache entry: lines 76-108,
\* 128-139 and 159-168 inside the except clause of 114, 145 and 174.
HandlerResult(kind, id, customer, assets, market, amount, catalog) ==
    CASE kind = "recommend" ->
           LET out == GenerateRecommendations(catalog, TRUE, TRUE, customer,
                                              assets, market, amount)
               body == RecommendationResponse(id, customer, assets, out)
           IN  IF ~customer.present
                  THEN ExceptClause(kind, id, CustomerNotFound)
               ELSE IF out.raised
                  THEN ExceptClause(kind, id, Failure("AttributeError"))
               ELSE IF ~ValidResponse(body)
                  THEN ExceptClause(kind, id, Failure("ValidationError"))
               ELSE Ok(kind, id, body, FALSE)
      [] kind = "analysis" ->
           LET out == AnalyzePortfolio(customer, assets, market)
           IN  IF out.raised
                  THEN ExceptClause(kind, id, Failure("AttributeError"))
               ELSE Ok(kind, id, out, FALSE)
      [] OTHER ->
           LET out == AssessRisk(TRUE, TRUE, customer, assets, market)
           IN  IF out.raised
                  THEN ExceptClause(kind, id, Failure("AttributeError"))
               ELSE Ok(kind, id, out, FALSE)

\* The catalog the handler finds: built at startup.
CacheCatalog == LoadInvestmentProducts(1, MockMarketOverview(<<1, 1, 1>>))

CacheCustomers ==
    {CustomerService("c1"), Customer("LOW", 300, TRUE, 200, 500), NoCustomer}

CacheHoldings == {<<>>, AssetService("c1")}

\* get_up, set_up: whether the redis call inside cache_service.get and
\* cache_service.set returns (TRUE) or raises (FALSE).
CacheCalls ==
    { c \in [kind : {"recommend", "analysis", "risk"},
              customer : CacheCustomers, assets : CacheHoldings,
              market : SvcMockSnapshots, amount : SvcAmounts,
              get_up : BOOLEAN, set_up : BOOLEAN] :
        c.kind = "recommend" \/ c.amount = NoAmount }

\* What an earlier request may have left under the key: nothing, or the
\* body it was answered with.
PriorEntries(kind) ==
    {NoBody} \cup
    { r.body : r \in { e \in { HandlerResult(kind, "c1", CustomerService("c1"),
                                      AssetService("c1"), m, NoAmount,
                                      CacheCatalog) : m \in SvcMockSnapshots } :
                         e.status = 200 } }

InitCache ==
    /\ \E c \in CacheCalls :
         \E prior \in PriorEntries(c.kind) :
           /\ hnd = [phase |-> "call", kind |-> c.kind, customer_id |-> "c1",
                     customer |-> c.customer, assets |-> c.assets,
                     market |-> c.market, amount |-> c.amount,
                     get_up |-> c.get_up, set_up |-> c.set_up,
                     prior |-> prior, response |-> NoResp]
           /\ cache = [key \in CacheKeys |->
                         IF key = <<OpOf(c.kind), "c1">> THEN prior ELSE NoBody]
    /\ api_key = FALSE
    /\ investment_products = CacheCatalog
    /\ pc = [p \in Tasks |-> IF p = 0 THEN "done" ELSE "idle"]
    /\ req = [p \in Procs |-> NoReq]
    /\ resp = [p \in Procs |-> NoResp]
    /\ builds = 1
    /\ nreq = 0
    /\ pred = PredIdle
    /\ rank = RankIdle
    /\ port = PortIdle
    /\ mkt = MktIdle

\* Lines 70-74, 122-126, 153-157: the cache is read; a hit is returned.
ReadCache ==
    /\ hnd.phase = "call"
    /\ LET cached_result == CacheGet(<<OpOf(hnd.kind), hnd.customer_id>>,
                                     hnd.get_up)
       IN  IF cached_result # NoBody
              THEN hnd' = [hnd EXCEPT
                             !.phase = "done",
                             !.response = Ok(hnd.kind, hnd.customer_id,
                                             cached_result, TRUE)]
              ELSE hnd' = [hnd EXCEPT !.phase = "miss"]
    /\ UNCHANGED <<pred, rank, port, mkt, svcVars>>

\* Lines 76-112, 128-143, 159-172: the result is computed, stored if it
\* was computed without an exception, and returned.
ComputeAndStore ==
    /\ hnd.phase = "miss"
    /\ LET result == HandlerResult(hnd.kind, hnd.customer_id, hnd.customer,
                                   hnd.assets, hnd.market, hnd.amount,
                                   investment_products)
       IN  /\ hnd' = [hnd EXCEPT !.phase = "done", !.response = result]
           /\ cache' = IF result.status = 200
                          THEN CacheSet(<<OpOf(hnd.kind), hnd.customer_id>>,
                                        result.body, hnd.set_up)
                          ELSE cache
    /\ UNCHANGED <<pred, rank, port, mkt, api_key, investment_products, pc,
                   req, resp, builds, nreq>>

NextCache == ReadCache \/ ComputeAndStore

SpecCache == InitCache /\ [][NextCache]_vars

(***************************************************************************)
(* Properties of the service (Spec).                                       *)
(***************************************************************************)
\* C1: when several callers find the catalog empty, exactly one catalog
\* build runs: never are two tasks inside _load_investment_products at once.
C1_SingleCatalogBuild ==
    \A p, q \in Tasks : (pc[p] = "load" /\ pc[q] = "load") => p = q

\* C2: a recommendation request that missed the cache and whose profile
\* fetch returned nothing (the only way it ends at the profile fetch) ends
\* with a 404.
C2_AbsentProfileIsNotFound ==
    [][\A p \in Procs :
          (pc[p] = "customer" /\ req[p].kind = "recommend" /\ pc'[p] = "idle")
              => resp'[p].status = 404]_vars

\* C3: a portfolio-analysis or risk-assessment request whose profile fetch
\* returned nothing ends, for empty and non-empty holdings alike, with a
\* success that carries a result.
C3_AbsentProfileStillAnswered ==
    [][\A p \in Procs :
          (/\ req[p].kind \in {"analysis", "risk"}
           /\ pc[p] \in {"market", "overview"}
           /\ ~req[p].customer.present
           /\ pc'[p] = "idle")
              => (resp'[p].status = 200 /\ resp'[p].body # NoBody)]_vars

\* C9: a built catalog is replaced only by a step of an explicit refresh:
\* the /test-products handler emptying it, or that handler's own build
\* landing.
C9_OnlyRefreshReplacesCatalog ==
    [][(investment_products # <<>>
        /\ investment_products' # investment_products)
          => \E p \in Procs :
                \/ (pc[p] = "idle" /\ req'[p].kind = "refresh")
                \/ (req[p].kind = "refresh" /\ pc[p] = "load"
                    /\ pc'[p] = "overview")]_vars

(***************************************************************************)
(* Properties of the predictors (SpecPredict).                             *)
(***************************************************************************)
\* C5: on every return path predict_risk_score returns a value in [1, 10]
\* and predict_expected_return a value in [0, 25].
C5_PredictionsInRange ==
    /\ (pred.phase \in {"risk", "done"} /\ ~pred.risk.raised)
          => (pred.risk.value >= 100 /\ pred.risk.value <= 1000)
    /\ (pred.phase = "done" /\ ~pred.ret.raised)
          => (pred.ret.value >= 0 /\ pred.ret.value <= 2500)

\* C10: with the model unavailable, or the prediction raising, neither
\* predictor raises; predict_risk_score returns the self-reported riskScore
\* when the payload has one and predict_expected_return returns 8.0.
C10_FallbacksNeverRaise ==
    /\ (/\ pred.phase \in {"risk", "done"}
        /\ (~pred.risk_model \/ ~pred.customer.present
            \/ ~pred.customer.featuresOk))
          => /\ ~pred.risk.raised
             /\ pred.customer.riskScore # NoScore
                  => pred.risk.value = pred.customer.riskScore
    /\ (/\ pred.phase = "done"
        /\ (~pred.return_model \/ ~pred.customer.present
            \/ ~pred.customer.featuresOk))
          => (~pred.ret.raised /\ pred.ret.value = 800)

(***************************************************************************)
(* Properties of generate_recommendations (SpecRank).                      *)
(***************************************************************************)
\* C4: every recommendation returned has confidence_score in [0, 1].
C4_ConfidenceInUnitInterval ==
    rank.phase = "done" =>
        \A k \in 1..Len(rank.out.recommendations) :
            /\ rank.out.recommendations[k].confidence_score >= 0
            /\ rank.out.recommendations[k].confidence_score <= 1000

\* C6: every recommendation's risk_level is admitted by the customer's
\* riskProfile (MEDIUM when the payload has none): LOW admits LOW, MEDIUM
\* admits LOW and MEDIUM, HIGH admits all three.
C6_RiskProfileAdmitsReturned ==
    rank.phase = "done" =>
        LET profile == IF rank.customer.riskProfile = "" THEN "MEDIUM"
                       ELSE rank.customer.riskProfile
        IN  \A k \in 1..Len(rank.out.recommendations) :
              LET level == rank.out.recommendations[k].risk_level
              IN  \/ level = "LOW"
                  \/ (level = "MEDIUM" /\ profile \in {"MEDIUM", "HIGH"})
                  \/ (level = "HIGH" /\ profile = "HIGH")

\* C6 happens: a LOW-profile customer is served from a catalog that holds
\* HIGH-risk products.
C6_LowProfileServed ==
    /\ rank.phase = "done"
    /\ rank.customer.riskProfile = "LOW"
    /\ \E i \in 1..Len(rank.catalog) : rank.catalog[i].risk_level = "HIGH"
    /\ Len(rank.out.recommendations) > 0

\* C7: no STOCK is returned under a BEARISH snapshot and no BOND or GOLD
\* under a BULLISH one.
C7_MarketRegimeExclusion ==
    rank.phase = "done" =>
        \A k \in 1..Len(rank.out.recommendations) :
            LET type == rank.out.recommendations[k].asset_type
            IN  /\ rank.market.market_sentiment = "BEARISH" => type # "STOCK"
                /\ rank.market.market_sentiment = "BULLISH"
                      => type \notin {"BOND", "GOLD"}

\* C7 happens (Scenario A): a HIGH-profile customer under a BEARISH
\* snapshot, the catalog holding STOCK products, is served.
C7_ScenarioA ==
    /\ rank.phase = "done"
    /\ rank.customer.riskProfile = "HIGH"
    /\ rank.market.market_sentiment = "BEARISH"
    /\ \E i \in 1..Len(rank.catalog) : rank.catalog[i].asset_type = "STOCK"
    /\ Len(rank.out.recommendations) > 0

\* C8: at most 5 recommendations, each built from the candidate at its
\* rank, in non-increasing order of total score, and no admissible candidate
\* left out scores strictly higher than a returned one.
C8_TopFiveByScore ==
    rank.phase = "done" =>
        LET recs == rank.out.recommendations
            top == rank.out.top
            profile == IF rank.customer.riskProfile = "" THEN "MEDIUM"
                       ELSE rank.customer.riskProfile
            sentiment == rank.market.market_sentiment
            Admissible(i) ==
                LET product == rank.catalog[i]
                IN  /\ \/ product.risk_level = "LOW"
                       \/ (product.risk_level = "MEDIUM"
                           /\ profile \in {"MEDIUM", "HIGH"})
                       \/ (product.risk_level = "HIGH" /\ profile = "HIGH")
                    /\ ~(sentiment = "BEARISH" /\ product.asset_type = "STOCK")
                    /\ ~(sentiment = "BULLISH"
                         /\ product.asset_type \in {"BOND", "GOLD"})
            ScoreOf(i) ==
                TotalScore(rank.catalog[i], rank.customer, rank.asset_data,
                           rank.market, rank.investment_amount,
                           rank.out.predicted_risk_score,
                           rank.out.predicted_expected_return)
            returned == {top[k].index : k \in 1..Len(top)}
        IN  /\ Len(recs) <= 5
            /\ Len(recs) = Len(top)
            /\ \A k \in 1..Len(recs) :
                 /\ Admissible(top[k].index)
                 /\ recs[k].asset_type = rank.catalog[top[k].index].asset_type
                 /\ recs[k].expected_return
                      = rank.catalog[top[k].index].expected_return
            /\ \A j, k \in 1..Len(top) :
                 j < k => ScoreOf(top[j].index) >= ScoreOf(top[k].index)
            /\ \A i \in 1..Len(rank.catalog) :
                 (Admissible(i) /\ i \notin returned)
                    => \A k \in 1..Len(top) :
                          ScoreOf(i) <= ScoreOf(top[k].index)

\* C8 happens: more than five admissible candidates with differing scores,
\* five returned.
C8_CandidatesLeftOut ==
    /\ rank.phase = "done"
    /\ Len(rank.out.scored_products) > 5
    /\ Len(rank.out.recommendations) = 5
    /\ rank.out.scored_products[1].score > rank.out.scored_products[6].score

C12_AllocationSumsTo100 ==
    (/\ port.phase \in {"analyzed", "done"}
     /\ ~port.analysis.raised
     /\ port.asset_data # <<>>
     /\ TotalValue(port.asset_data) > 0) =>
        LET alloc == port.analysis.asset_allocation
            total == TotalValue(port.asset_data)
            order == <<"SAVINGS", "BOND", "STOCK", "FUND", "GOLD", "REAL_ESTATE", "OTHER">>
            held(t) == SelectSeq(port.asset_data, LAMBDA a : a.assetType = t)
        IN  /\ DOMAIN alloc = { port.asset_data[i].assetType :
                                  i \in 1..Len(port.asset_data) }
            /\ \A t \in DOMAIN alloc :
                  /\ t \in { order[i] : i \in 1..Len(order) }
                  /\ alloc[t].den > 0
                  /\ alloc[t].num * total
                        = 100 * SumSeq([i \in 1..Len(held(t)) |->
                                           held(t)[i].currentValue])
                             * alloc[t].den
                  /\ SumSeq([i \in 1..Len(order) |->
                               IF order[i] \in DOMAIN alloc
                                  THEN alloc[order[i]].num ELSE 0])
                        = 100 * alloc[t].den

\* C12 witness: a portfolio of 30 in STOCK and 70 in BOND has been analysed.
C12_TwoTypesAllocated ==
    /\ port.phase = "analyzed"
    /\ ~port.analysis.raised
    /\ port.analysis.total_value = 100
    /\ DOMAIN port.analysis.asset_allocation = {"STOCK", "BOND"}
    /\ port.analysis.asset_allocation["STOCK"] = [num |-> 3000, den |-> 100]

\* C13 as stated: the index of _calculate_concentration_risk is in [0,1]
\* and is 1.0 exactly when the holdings list has a single holding.
C13_OneExactlyForSingleHolding ==
    port.phase = "done" =>
        LET hhi == CalculateConcentrationRisk(port.asset_data)
        IN  /\ 0 <= hhi.num /\ hhi.num <= hhi.den
            /\ (hhi.num = hhi.den) <=> (Len(port.asset_data) = 1)

\* C13 amended: the index is in [0,1]; it is 0 when total_value is 0, and
\* otherwise it is 1.0 exactly when one holding carries the whole
\* total_value (so for every single holding of positive value, and for no
\* list with two or more holdings of positive value).  assess_risk reports
\* this figure.
C13_OneExactlyForWholeValue ==
    port.phase = "done" =>
        LET hhi == CalculateConcentrationRisk(port.asset_data)
            total == TotalValue(port.asset_data)
            positive == SelectSeq(port.asset_data, LAMBDA a : a.currentValue > 0)
        IN  /\ hhi.den > 0 /\ 0 <= hhi.num /\ hhi.num <= hhi.den
            /\ total = 0 => hhi.num = 0
            /\ total > 0 =>
                  /\ (hhi.num = hhi.den) <=>
                        (\E i \in 1..Len(port.asset_data) :
                            port.asset_data[i].currentValue = total)
                  /\ (Len(port.asset_data) = 1) => hhi.num = hhi.den
                  /\ (Len(positive) >= 2) => hhi.num < hhi.den
            /\ ~port.assessment.raised =>
                  port.assessment.concentration_risk = hhi

\* C13 witness: assess_risk has reported an index of 1.0 for two holdings,
\* one of which is worth nothing.
C13_WholeValueInOneOfTwo ==
    /\ port.phase = "done"
    /\ ~port.assessment.raised
    /\ Len(port.asset_data) = 2
    /\ port.asset_data[2].currentValue = 0
    /\ port.assessment.concentration_risk.num
          = port.assessment.concentration_risk.den

\* C14: the diversification_score of analyze_portfolio is in [0,1] and is
\* max(0, min(number of asset types / 5, 1) - the sum over asset types with
\* allocation > 50% of (allocation - 50) / 100).
C14_DiversificationFormula ==
    (port.phase \in {"analyzed", "done"} /\ ~port.analysis.raised) =>
        LET score == port.analysis.diversification_score
            total == TotalValue(port.asset_data)
            order == <<"SAVINGS", "BOND", "STOCK", "FUND", "GOLD", "REAL_ESTATE">>
            of(t) == SumSeq([i \in 1..Len(port.asset_data) |->
                               IF port.asset_data[i].assetType = t
                                  THEN port.asset_data[i].currentValue ELSE 0])
            n == Cardinality({ port.asset_data[i].assetType :
                                 i \in 1..Len(port.asset_data) })
            \* (allocation - 50) / 100 in units of 1 / (100 x total)
            excess(t) == IF total > 0 /\ 100 * of(t) > 50 * total
                            THEN 100 * of(t) - 50 * total ELSE 0
            penalty == SumSeq([i \in 1..Len(order) |-> excess(order[i])])
            scale == IF total > 0 THEN total ELSE 1
            \* min(n / 5, 1) - penalty in units of 1 / (100 x scale)
            raw == 20 * (IF n < 5 THEN n ELSE 5) * scale - penalty
        IN  /\ score.den > 0 /\ 0 <= score.num /\ score.num <= score.den
            /\ score.num * 100 * scale
                  = (IF raw > 0 THEN raw ELSE 0) * score.den

\* C14 witness: a portfolio of two types, one above 50%, has been scored:
\* 70 in STOCK and 30 in BOND give 2/5 - 20/100 = 0.2.
C14_PenalisedPortfolioScored ==
    /\ port.phase = "analyzed"
    /\ ~port.analysis.raised
    /\ Len(port.asset_data) = 2
    /\ port.asset_data[1].assetType = "STOCK" /\ port.asset_data[1].currentValue = 70
    /\ port.asset_data[2].assetType = "BOND" /\ port.asset_data[2].currentValue = 30
    /\ port.analysis.diversification_score.num * 5
          = port.analysis.diversification_score.den

\* C15: assess_risk emits one concentration factor for each holding whose
\* share of total value exceeds 30% (HIGH above 50%, else MEDIUM) and none
\* for a holding at or below 30%; a single holding at 100% gives percentage
\* 100 and HIGH; a risk-mismatch factor is emitted iff riskProfile = LOW and
\* some holding has riskLevel = HIGH.
C15_RiskFactorsEmitted ==
    (port.phase = "done" /\ ~port.assessment.raised) =>
        LET factors == port.assessment.risk_factors
            conc == SelectSeq(factors, LAMBDA f : f.type = "concentration")
            mism == SelectSeq(factors, LAMBDA f : f.type = "risk_mismatch")
            total == TotalValue(port.asset_data)
            value(i) == port.asset_data[i].currentValue
            over == { i \in 1..Len(port.asset_data) : 100 * value(i) > 30 * total }
            severity(i) == IF 100 * value(i) > 50 * total THEN "HIGH" ELSE "MEDIUM"
            \* f reports holding i: its name, its severity, and its share in
            \* hundredths of a percent rounded to the nearest
            reports(f, i) ==
                /\ f.asset = port.asset_data[i].assetName
                /\ f.severity = severity(i)
                /\ 2 * Abs(f.percentage * total - 10000 * value(i)) <= total
        IN  /\ Len(conc) + Len(mism) = Len(factors)
            /\ Len(conc) = Cardinality(over)
            /\ \A i \in over : \E k \in 1..Len(conc) : reports(conc[k], i)
            /\ \A k \in 1..Len(conc) : \E i \in over : reports(conc[k], i)
            /\ (Len(port.asset_data) = 1 /\ total > 0) =>
                  /\ Len(conc) = 1
                  /\ conc[1].percentage = 10000
                  /\ conc[1].severity = "HIGH"
            /\ Len(mism) = IF /\ port.customer.riskProfile = "LOW"
                              /\ \E i \in 1..Len(port.asset_data) :
                                    port.asset_data[i].riskLevel = "HIGH"
                              THEN 1 ELSE 0

\* C15 witness: a LOW-profile customer with 30 in BOND and 70 in STOCK has
\* been assessed: one concentration factor (STOCK, 70%, HIGH), none for the
\* holding at 30%, and the risk-mismatch factor.
C15_ThirtySeventyAssessed ==
    /\ port.phase = "done"
    /\ ~port.assessment.raised
    /\ port.customer.riskProfile = "LOW"
    /\ Len(port.asset_data) = 2
    /\ port.asset_data[1].assetType = "BOND" /\ port.asset_data[1].currentValue = 30
    /\ port.asset_data[2].assetType = "STOCK" /\ port.asset_data[2].currentValue = 70
    /\ Len(port.assessment.risk_factors) = 2
    /\ port.assessment.risk_factors[1].percentage = 7000
    /\ port.assessment.risk_factors[2].type = "risk_mismatch"

\* C16: analyze_portfolio with empty holdings returns total_value 0, an
\* empty allocation map, risk_score 5, diversification_score 0,
\* performance_score 0 and exactly one recommendation (start building a
\* portfolio), for every customer profile and market snapshot.
C16_EmptyHoldingsAnalysis ==
    (port.phase \in {"analyzed", "done"} /\ port.asset_data = <<>>) =>
        /\ ~port.analysis.raised
        /\ port.analysis.total_value = 0
        /\ DOMAIN port.analysis.asset_allocation = {}
        /\ port.analysis.risk_score = 500
        /\ port.analysis.diversification_score.num = 0
        /\ port.analysis.performance_score = 0
        /\ port.analysis.recommendations = <<"start">>

\* C16 witness: the analysis has been returned for empty holdings and no
\* customer profile at all, under a BEARISH snapshot.
C16_EmptyAnalysedWithoutProfile ==
    /\ port.phase = "analyzed"
    /\ port.asset_data = <<>>
    /\ ~port.customer.present
    /\ port.market.market_sentiment = "BEARISH"
    /\ port.analysis.recommendations = <<"start">>

(***************************************************************************)
(* Further properties of generate_recommendations (SpecRank).              *)
(***************************************************************************)
\* C17: for every specified investment_amount below the min_investment of
\* every candidate product, every recommendation returned has
\* min_investment equal to investment_amount.
C17_MinInvestmentLoweredToAmount ==
    (/\ rank.phase = "done"
     /\ ~rank.out.raised
     /\ rank.investment_amount # NoAmount
     /\ \A k \in 1..Len(rank.out.scored_products) :
           rank.investment_amount
              < rank.out.scored_products[k].product.min_investment) =>
        \A k \in 1..Len(rank.out.recommendations) :
            rank.out.recommendations[k].min_investment = rank.investment_amount

\* C19 as stated: with sentiment BULLISH, riskProfile MEDIUM and one STOCK
\* holding, the STOCK candidates of generate_recommendations are scored with
\* the BULLISH +15 and without the +15 diversification bonus.
C19_MediumProfileStockScored ==
    (/\ rank.phase = "done"
     /\ ~rank.out.raised
     /\ rank.market.market_sentiment = "BULLISH"
     /\ rank.customer.riskProfile = "MEDIUM"
     /\ Len(rank.asset_data) = 1
     /\ rank.asset_data[1].assetType = "STOCK") =>
        LET scored == rank.out.scored_products
            stock == { k \in 1..Len(scored) : scored[k].product.asset_type = "STOCK" }
        IN  /\ stock # {}
            /\ \A k \in stock :
                  scored[k].score
                     = 2 * scored[k].product.expected_return
                       + RiskAlignmentBonus(scored[k].product, "MEDIUM")
                       + 150
                       + AmountBonus(scored[k].product, rank.investment_amount)
                       + CalculateMlBasedAdjustment(scored[k].product,
                             rank.out.predicted_risk_score,
                             rank.out.predicted_expected_return, rank.market)

\* C19 amended: the same for riskProfile HIGH, the profile for which STOCK
\* products are candidates: each STOCK candidate's score is 2 x
\* expected_return + 20 (risk alignment) + 15 (BULLISH) + 0 (type already
\* held) + the amount term + the ML adjustment (scores in tenths).
C19_HighProfileStockScored ==
    (/\ rank.phase = "done"
     /\ ~rank.out.raised
     /\ rank.market.market_sentiment = "BULLISH"
     /\ rank.customer.riskProfile = "HIGH"
     /\ Len(rank.asset_data) = 1
     /\ rank.asset_data[1].assetType = "STOCK") =>
        LET scored == rank.out.scored_products
            stock == { k \in 1..Len(scored) : scored[k].product.asset_type = "STOCK" }
        IN  /\ stock # {}
            /\ \A k \in stock :
                  /\ scored[k].product.risk_level = "HIGH"
                  /\ scored[k].score
                        = 2 * scored[k].product.expected_return
                          + 200
                          + 150
                          + AmountBonus(scored[k].product, rank.investment_amount)
                          + CalculateMlBasedAdjustment(scored[k].product,
                                rank.out.predicted_risk_score,
                                rank.out.predicted_expected_return, rank.market)

\* C19 witness: a STOCK product has been scored for a HIGH-profile customer
\* holding one STOCK asset under a BULLISH snapshot.
C19_StockScoredForHighProfile ==
    /\ rank.phase = "done"
    /\ ~rank.out.raised
    /\ rank.market.market_sentiment = "BULLISH"
    /\ rank.customer.riskProfile = "HIGH"
    /\ Len(rank.asset_data) = 1
    /\ rank.asset_data[1].assetType = "STOCK"
    /\ \E k \in 1..Len(rank.out.scored_products) :
          rank.out.scored_products[k].product.asset_type = "STOCK"

(***************************************************************************)
(* Further properties of assess_risk (SpecPortfolio).                      *)
(***************************************************************************)
\* C20: with empty holdings assess_risk raises no error and every
\* holdings-derived figure is zero or neutral: portfolio_risk_score 5.0,
\* concentration 0, volatility_estimate 0, no risk factors, stress-test
\* estimated_loss 0 and estimated_impact 0, average_asset_value 0.
C20_EmptyHoldingsAssessment ==
    (port.phase = "done" /\ port.asset_data = <<>>) =>
        /\ ~port.assessment.raised
        /\ port.assessment.portfolio_risk_score = 500
        /\ port.assessment.concentration_risk.num = 0
        /\ port.assessment.volatility_estimate = 0
        /\ port.assessment.risk_factors = <<>>
        /\ port.assessment.estimated_loss = 0
        /\ port.assessment.estimated_impact = 0
        /\ port.assessment.average_asset_value.num = 0

(***************************************************************************)
(* Properties of the market snapshot (SpecMarket).                         *)
(***************************************************************************)
\* C21: the sentiment is BULLISH iff at least 70% of the index quotes that
\* carry a change value have a positive change, BEARISH iff at most 30% do,
\* and NEUTRAL otherwise, also when no index carries a change value.
C21_SentimentThresholds ==
    mkt.phase = "done" =>
        LET carrying == { i \in 1..Len(mkt.index_data) :
                            mkt.index_data[i].hasChange }
            positive == { i \in carrying : mkt.index_data[i].change > 0 }
            share(pct) == 100 * Cardinality(positive) - pct * Cardinality(carrying)
        IN  IF carrying = {} THEN mkt.sentiment = "NEUTRAL"
            ELSE /\ (mkt.sentiment = "BULLISH") <=> (share(70) >= 0)
                 /\ (mkt.sentiment = "BEARISH") <=> (share(30) <= 0)
                 /\ (mkt.sentiment = "NEUTRAL") <=> (share(70) < 0 /\ share(30) > 0)

\* C21 witness: seven of ten quotes rising has been found BULLISH.
C21_SevenOfTenBullish ==
    /\ mkt.phase = "done"
    /\ Len(mkt.index_data) = 10
    /\ Cardinality({ i \in 1..10 : mkt.index_data[i].change > 0 }) = 7
    /\ mkt.sentiment = "BULLISH"

(***************************************************************************)
(* Further properties of the scoring (SpecRank).                           *)
(***************************************************************************)
\* C22: the risk-alignment term of a product's score is +20 when
\* product.risk_level equals the customer's riskProfile, +10 when one of the
\* two is MEDIUM and the other is HIGH or LOW (in either direction), and 0
\* otherwise (scores in tenths).
C22_RiskAlignmentTerm ==
    (rank.phase = "done" /\ ~rank.out.raised) =>
        LET profile == GetRiskProfile(rank.customer)
            aligned(level) ==
                IF level = profile THEN 200
                ELSE IF (level = "MEDIUM" /\ profile \in {"HIGH", "LOW"})
                        \/ (profile = "MEDIUM" /\ level \in {"HIGH", "LOW"})
                    THEN 100
                ELSE 0
        IN  \A k \in 1..Len(rank.out.scored_products) :
               LET product == rank.out.scored_products[k].product
               IN  rank.out.scored_products[k].score
                      = 2 * product.expected_return
                        + aligned(product.risk_level)
                        + (IF product.asset_type \notin AssetTypesOf(rank.asset_data)
                              THEN 150 ELSE 0)
                        + MarketSentimentBonus(product, rank.market)
                        + AmountBonus(product, rank.investment_amount)
                        + CalculateMlBasedAdjustment(product,
                              rank.out.predicted_risk_score,
                              rank.out.predicted_expected_return, rank.market)

(***************************************************************************)
(* Further properties of the stress test and the risk level                *)
(* (SpecPortfolio).                                                        *)
(***************************************************************************)
\* C23: in the interest-rate scenario estimated_impact is total_value x
\* (BOND% x 0.08 + SAVINGS% x 0.02) / 100 with the SAVINGS term, a gain,
\* entering with the opposite sign to the BOND loss: its size is
\* |0.08 x BOND value - 0.02 x SAVINGS value|, and a portfolio of SAVINGS
\* only gets the opposite sign of a portfolio of BOND only (amounts in
\* hundredths).
C23_SavingsGainOffsetsBondLoss ==
    (port.phase = "done" /\ ~port.assessment.raised /\ port.asset_data # <<>>) =>
        LET bond == ValueOfTypes(port.asset_data, {"BOND"})
            savings == ValueOfTypes(port.asset_data, {"SAVINGS"})
            bondOnly == CalculateStressTestResults(
                            <<Holding("BOND", 100, 100, "LOW")>>, 100)
        IN  /\ Abs(port.assessment.estimated_impact) = Abs(8 * bond - 2 * savings)
            /\ (bond = 0 /\ savings > 0) =>
                  port.assessment.estimated_impact * bondOnly.estimated_impact < 0

\* C24: assess_risk computes overall_risk_score as the arithmetic mean of
\* portfolio_risk_score, the customer's self-reported riskScore and
\* predicted_risk_score, maps it to LOW if <= 3, MEDIUM if <= 7, else HIGH,
\* and returns the risk_mitigation list defined for that level (scores in
\* hundredths).
C24_OverallRiskLevel ==
    (port.phase = "done" /\ ~port.assessment.raised
        /\ port.customer.riskScore # NoScore) =>
        LET a == port.assessment
            overall == a.overall_risk_score
            level == IF overall.num <= 300 * overall.den THEN "LOW"
                     ELSE IF overall.num <= 700 * overall.den THEN "MEDIUM"
                     ELSE "HIGH"
        IN  /\ overall.den > 0
            /\ 3 * overall.num
                  = (a.portfolio_risk_score + port.customer.riskScore
                        + a.predicted_risk_score) * overall.den
            /\ a.overall_risk_level = level
            /\ a.risk_mitigation =
                  (IF level = "HIGH" THEN <<"safe_assets", "diversify", "stop_loss">>
                   ELSE IF level = "MEDIUM" THEN <<"balance", "monitor">>
                   ELSE <<"growth">>)

\* C24 witness: an assessment has come out LOW, with the list for LOW.
C24_LowLevelAssessed ==
    /\ port.phase = "done"
    /\ ~port.assessment.raised
    /\ port.asset_data # <<>>
    /\ port.assessment.overall_risk_level = "LOW"
    /\ port.assessment.risk_mitigation = <<"growth">>

(***************************************************************************)
(* Further properties of the predictors (SpecPredict).                     *)
(***************************************************************************)
\* C25: after the model predicts, BEARISH gives risk = min(10, risk + 1)
\* and return = max(0, return - 1); BULLISH gives risk = max(1, risk - 0.5)
\* and return = min(25, return + 2); NEUTRAL leaves the risk unchanged; the
\* return is then multiplied by (1 + benchmark_return x 0.3); and the
\* returned values are within [1,10] and [0,25] (hundredths).
C25_MarketAdjustment ==
    (/\ pred.phase = "done"
     /\ pred.risk_model /\ pred.return_model
     /\ pred.customer.present /\ pred.customer.featuresOk
     /\ pred.market.hasData) =>
        LET sentiment == pred.market.market_sentiment
            risk == pred.customer.mlRisk
            return == pred.customer.mlReturn
            bySentiment ==
                IF sentiment = "BEARISH" THEN Max(0, return - 100)
                ELSE IF sentiment = "BULLISH" THEN Min(2500, return + 200)
                ELSE return
            \* benchmark_return x 0.3 in thousandths: 3 per percent of the
            \* ^GSPC change_percent
            multiplied ==
                RoundDiv(bySentiment * (1000 + 3 * pred.market.quotes[1].pct), 1000)
        IN  /\ ~pred.risk.raised /\ ~pred.ret.raised
            /\ pred.risk.value =
                  (IF sentiment = "BEARISH" THEN Min(1000, risk + 100)
                   ELSE IF sentiment = "BULLISH" THEN Max(100, risk - 50)
                   ELSE risk)
            /\ pred.ret.value = Max(0, Min(2500, multiplied))
            /\ pred.risk.value >= 100 /\ pred.risk.value <= 1000
            /\ pred.ret.value >= 0 /\ pred.ret.value <= 2500

\* C25 witness: under a BULLISH snapshot a predicted risk of 1.0 has been
\* returned as max(1, 1.0 - 0.5) = 1.0 and a predicted return of 0 as
\* (0 + 2) x (1 + 0.02 x 0.3) = 2.01.
C25_BullishAdjusted ==
    /\ pred.phase = "done"
    /\ pred.risk_model /\ pred.return_model
    /\ pred.customer.present /\ pred.customer.featuresOk
    /\ pred.market.hasData
    /\ pred.market.market_sentiment = "BULLISH"
    /\ pred.market.quotes[1].pct = 2
    /\ pred.customer.mlRisk = 100 /\ pred.risk.value = 100
    /\ pred.customer.mlReturn = 0 /\ pred.ret.value = 201


\* C26: every 200 response of POST /recommendations is post-processed for
\* the investment_amount of the request it answers: when that request gives
\* an amount, no recommendation in the response asks for a min_investment
\* above it (lines 483-485 lower it to the amount), whichever request filled
\* the cache before.
C26_ResponseReflectsRequestAmount ==
    \A p \in Procs :
        (/\ resp[p].status = 200
         /\ resp[p].kind = "recommend"
         /\ AmountGiven(resp[p].amount)) =>
            \A k \in 1..Len(resp[p].body.recommendations) :
                resp[p].body.recommendations[k].min_investment
                    <= resp[p].amount

\* C27: with the catalog built, generate_recommendations returns at least
\* one recommendation to every customer whose riskProfile is LOW, MEDIUM or
\* HIGH, under every market sentiment: the risk filter and the market filter
\* together never empty the candidate set.
C27_FiltersLeaveACandidate ==
    (/\ rank.phase = "done"
     /\ rank.customer.riskProfile \in RiskLevel) =>
        /\ ~rank.out.raised
        /\ Len(rank.out.recommendations) >= 1

\* A LOW customer in a BULLISH market: the filters leave SAVINGS alone.
C27_LowBullishGetsSavingsOnly ==
    /\ rank.phase = "done"
    /\ rank.customer.riskProfile = "LOW"
    /\ rank.market.hasData
    /\ Sentiment(rank.market) = "BULLISH"
    /\ Len(rank.out.recommendations) >= 1
    /\ \A k \in 1..Len(rank.out.recommendations) :
           rank.out.recommendations[k].asset_type = "SAVINGS"

\* C28: assess_risk returns without raising for every holdings list of a
\* customer that exists, a non-empty list whose currentValue sums to 0
\* included; when the total is 0 the stress test reports a loss of 0 and an
\* impact of 0.
C28_ZeroTotalAssessedWithoutRaising ==
    (/\ port.phase = "done"
     /\ port.customer.present) =>
        /\ ~port.assessment.raised
        /\ (TotalValue(port.asset_data) = 0) =>
               /\ port.assessment.estimated_loss = 0
               /\ port.assessment.estimated_impact = 0

\* C29: generate_recommendations leaves the catalog as it found it: after
\* the call every catalog product has the min_investment and max_investment
\* it had before and carries no confidence_score and no market context; the
\* adjusted values exist in the returned recommendations only.
C29_CatalogUnchanged ==
    (rank.phase = "done") =>
        /\ Len(rank.out.catalog) = Len(rank.catalog)
        /\ \A i \in 1..Len(rank.catalog) :
              /\ rank.out.catalog[i].min_investment
                     = rank.catalog[i].min_investment
              /\ rank.out.catalog[i].max_investment
                     = rank.catalog[i].max_investment
              /\ "confidence_score" \notin DOMAIN rank.out.catalog[i]
              /\ "market_sentiment" \notin DOMAIN rank.out.catalog[i]

\* A call whose amount lowered the min_investment of a recommendation below
\* that of the catalog product it was copied from.
C29_RecommendationAdjusted ==
    /\ rank.phase = "done"
    /\ ~rank.out.raised
    /\ \E k \in 1..Len(rank.out.recommendations) :
          /\ rank.out.recommendations[k].min_investment
                 < rank.catalog[rank.out.top[k].index].min_investment
          /\ rank.out.catalog[rank.out.top[k].index].min_investment
                 = rank.catalog[rank.out.top[k].index].min_investment

\* C30: a failing cache never fails a request.  When the redis call of
\* cache_service.get raises, the handler answers what it answers with no
\* entry under the key, whatever entry is there; when the redis call of
\* cache_service.set raises, the computed result is still returned and the
\* cache is left as it was.  A request fails only if the computation does.
C30_CacheFailureIsAMiss ==
    (hnd.phase = "done" /\ (~hnd.get_up \/ ~hnd.set_up)) =>
        LET computed == HandlerResult(hnd.kind, hnd.customer_id, hnd.customer,
                                      hnd.assets, hnd.market, hnd.amount,
                                      investment_products)
            key == <<OpOf(hnd.kind), hnd.customer_id>>
        IN  /\ (~hnd.get_up \/ hnd.prior = NoBody) => hnd.response = computed
            /\ ~hnd.set_up => cache[key] = hnd.prior
            /\ (hnd.get_up /\ hnd.prior # NoBody) =>
                   hnd.response = Ok(hnd.kind, hnd.customer_id, hnd.prior, TRUE)

\* Both redis calls raised while an entry lay under the key: the handler
\* answered 200 with a freshly computed body, and the entry is still there.
C30_ComputedDespiteRedisDown ==
    /\ hnd.phase = "done"
    /\ ~hnd.get_up
    /\ ~hnd.set_up
    /\ hnd.prior # NoBody
    /\ hnd.response.status = 200
    /\ ~hnd.response.from_cache
    /\ hnd.response.body # hnd.prior
    /\ cache[<<OpOf(hnd.kind), hnd.customer_id>>] = hnd.prior

====
